---- MODULE Spec2Model ----
(***************************************************************************)
(* Model of the ticket login protocol of proxmox-login (Login,             *)
(* SecondFactorChallenge) and of the LDAP realm handlers over the realm    *)
(* configuration file, as state machines.                                  *)
(*                                                                         *)
(* Strings.  A URL is a sequence of characters, where the fixed path        *)
(* segment "api2/json/access/ticket" is one character of the alphabet.      *)
(* A string that the protocol splits on ':' (tickets, passwords, second     *)
(* factor responses) is the sequence of its ':'-separated fields.           *)
(* Option<T> is a sequence of length 0 (None) or 1 (Some).                  *)
(***************************************************************************)
EXTENDS Integers, Sequences, FiniteSets, TLC

VARIABLES login, challenge, responds, last

\* The realm store: the content of domains.cfg, the realms with a stored bind
\* password, the holder of the lock file, the position of every handler
\* invocation, the last invocation that returned, and the last replacement of
\* the file.
VARIABLES file, secrets, lock, proc, rlast, committed

loginVars == <<login, challenge, responds, last>>

realmVars == <<file, secrets, lock, proc, rlast, committed>>

\* A call of the property update of update_ldap_realm on its own (its inputs
\* and its result), and a value of the section overlay with the last
\* operation on it.
VARIABLES upd, ovl

\* What the latest read of the realm configuration (list_ldap_realms,
\* read_ldap_realm) returned to its caller.
VARIABLES rd

\* One call of update_ldap_realm or delete_ldap_realm on a stored
\* configuration: the configuration, the realm id, and what the call made of it.
VARIABLES del

pureVars == <<upd, ovl, rd, del>>

vars ==
    <<login, challenge, responds, last, file, secrets, lock, proc, rlast, committed,
      upd, ovl, rd, del>>

\* ---------------------------------------------------------------- bounds

\* Largest number of '/' characters appended to a base URL.
MaxSlashes == 1

\* Largest number of follow-up requests built from one challenge.
MaxResponds == 2

\* Number of concurrent invocations of the realm handlers.
MaxProcs == 2

\* ---------------------------------------------------------------- options

None == <<>>

Some(x) == <<x>>

IsSome(o) == Len(o) = 1

\* ---------------------------------------------------------------- constants

METHOD_POST == "POST"

CONTENT_TYPE_JSON == "application/json"

TicketPath == <<"/", "api2/json/access/ticket">>

\* ---------------------------------------------------------------- inputs

RECURSIVE Slashes(_)
Slashes(k) == IF k = 0 THEN <<>> ELSE <<"/">> \o Slashes(k - 1)

BaseUrls == {<<>>, <<"h", "/", "x">>}

Urls == {b \o Slashes(k) : b \in BaseUrls, k \in 0..MaxSlashes}

Userids == {"alice", "bob"}

Passwords == {<<"secret">>}

Methods == {"totp", "yubico", "recovery", "webauthn"}

\* The TFA payload fields a server may put into a partial ticket.
TfaFields == {"!tfa!{}", "!tfa!{totp,recovery:low}", "!tfa!{yubico,webauthn}",
              "!tfa!garbage"}

FullTicketStrings ==
    {<<"PVE", "alice", "65A0", "", "sig">>,
     <<"PDM", "bob", "65A0", "", "sig">>}

TfaTicketStrings == {<<"PVE", f, "65A0", "", "sig">> : f \in TfaFields}

BadTicketStrings == {<<"PVE">>, <<"PVE", "alice", "zz", "", "sig">>}

TicketStrings == FullTicketStrings \cup TfaTicketStrings \cup BadTicketStrings

\* CreateTicketResponse values.
ResponseDatas ==
    [username : Userids,
     ticket : {None} \cup {Some(t) : t \in TicketStrings},
     csrfprevention_token : {None, Some("csrf")},
     clustername : {None}]

\* Response bodies: bytes that are no JSON envelope, an envelope without
\* `data`, an envelope with `data`.
Bodies ==
    {[wellformed |-> FALSE, data |-> None]}
    \cup {[wellformed |-> TRUE, data |-> d] :
            d \in {None} \cup {Some(r) : r \in ResponseDatas}}

Codes == {<<"123456">>, <<"a", "b">>}

RawDatas == Codes \cup {<<m>> \o c : m \in Methods, c \in Codes}

\* ---------------------------------------------------------------- ticket codec

HexTimestamps == {"65A0"}

\* Ticket::from_str: product:userid:timestamp::signature.
ParseTicket(raw) ==
    IF Len(raw) # 5 \/ raw[4] # ""
    THEN [ok |-> FALSE, err |-> "Invalid",
          ticket |-> [product |-> "", userid |-> "", raw |-> raw]]
    ELSE IF raw[3] \notin HexTimestamps
    THEN [ok |-> FALSE, err |-> "Malformed",
          ticket |-> [product |-> "", userid |-> "", raw |-> raw]]
    ELSE [ok |-> TRUE, err |-> "",
          ticket |-> [product |-> raw[1], userid |-> raw[2], raw |-> raw]]

\* The TfaChallenge a TFA payload field decodes to.
NoTfaChallenge ==
    [totp |-> FALSE, yubico |-> FALSE, recovery |-> "unavailable", webauthn |-> None]

IsTfaField(f) == f \in TfaFields

DecodeTfaChallenge(f) ==
    CASE f = "!tfa!{}" -> Some(NoTfaChallenge)
      [] f = "!tfa!{totp,recovery:low}" ->
            Some([NoTfaChallenge EXCEPT !.totp = TRUE, !.recovery = "low"])
      [] f = "!tfa!{yubico,webauthn}" ->
            Some([NoTfaChallenge EXCEPT !.yubico = TRUE,
                                        !.webauthn = Some("wa-challenge")])
      [] OTHER -> None

\* tfa::Recovery::is_available
RecoveryIsAvailable(state) == state # "unavailable"

\* TicketResponse::from_str: a ticket whose second field carries the !tfa!
\* prefix is a partial ticket with a challenge, anything else a full ticket.
ParseTicketResponse(raw) ==
    IF Len(raw) < 2
    THEN [ok |-> FALSE, kind |-> "none", ticket |-> ParseTicket(raw).ticket,
          challenge |-> NoTfaChallenge]
    ELSE IF IsTfaField(raw[2])
    THEN IF Len(raw) >= 3 /\ IsSome(DecodeTfaChallenge(raw[2]))
         THEN [ok |-> TRUE, kind |-> "tfa", ticket |-> ParseTicket(raw).ticket,
               challenge |-> DecodeTfaChallenge(raw[2])[1]]
         ELSE [ok |-> FALSE, kind |-> "none", ticket |-> ParseTicket(raw).ticket,
               challenge |-> NoTfaChallenge]
    ELSE [ok |-> ParseTicket(raw).ok, kind |-> "full",
          ticket |-> ParseTicket(raw).ticket, challenge |-> NoTfaChallenge]

\* ---------------------------------------------------------------- requests

\* api::CreateTicket serialized by serde_json: fields that are None are
\* left out, the others appear in declaration order.
SerializeCreateTicket(ct) ==
    <<<<"username", <<ct.username>>>>, <<"password", ct.password>>>>
    \o (IF IsSome(ct.new_format) THEN <<<<"new-format", <<"true">>>>>> ELSE <<>>)
    \o (IF IsSome(ct.tfa_challenge)
        THEN <<<<"tfa-challenge", ct.tfa_challenge[1]>>>> ELSE <<>>)

\* The value of field `key` of a serialized body, as an option.
BodyField(body, key) ==
    IF \E i \in 1..Len(body) : body[i][1] = key
    THEN Some(body[CHOOSE i \in 1..Len(body) : body[i][1] = key][2])
    ELSE None

NoRequest ==
    [method |-> "", url |-> <<>>, content_type |-> "", content_length |-> 0,
     body |-> <<>>]

\* bool::then_some(true)
ThenSomeTrue(b) == IF b THEN Some(TRUE) ELSE None

\* ---------------------------------------------------------------- Login

RECURSIVE TrimEndSlashes(_)
TrimEndSlashes(s) ==
    IF s # <<>> /\ s[Len(s)] = "/"
    THEN TrimEndSlashes(SubSeq(s, 1, Len(s) - 1))
    ELSE s

normalize_url(api_url) == SubSeq(api_url, 1, Len(TrimEndSlashes(api_url)))

Login_new(api_url, userid, password) ==
    [api_url |-> normalize_url(api_url), userid |-> userid,
     password |-> password, pve_compat |-> FALSE]

\* renew_ticket setting the compatibility flag for every product.
Login_renew_ticket_always_compat(api_url, ticket) ==
    [api_url |-> normalize_url(api_url), userid |-> ticket.userid,
     password |-> ticket.raw, pve_compat |-> TRUE]

Login_renew_ticket(api_url, ticket) ==
    [api_url |-> normalize_url(api_url), userid |-> ticket.userid,
     password |-> ticket.raw, pve_compat |-> (ticket.product = "PVE")]

Login_set_url(self, api_url) == [self EXCEPT !.api_url = api_url]

Login_pve_compatibility(self, compatibility) ==
    [self EXCEPT !.pve_compat = compatibility]

\* request serializing the compatibility flag also when it is false.
Login_request_always_new_format(self) ==
    LET request == [new_format |-> Some(self.pve_compat),
                    username |-> self.userid,
                    password |-> self.password,
                    tfa_challenge |-> None]
        body == SerializeCreateTicket(request)
    IN  [method |-> METHOD_POST,
         url |-> self.api_url \o TicketPath,
         content_type |-> CONTENT_TYPE_JSON,
         content_length |-> Len(body),
         body |-> body]

Login_request(self) ==
    LET request == [new_format |-> ThenSomeTrue(self.pve_compat),
                    username |-> self.userid,
                    password |-> self.password,
                    tfa_challenge |-> None]
        body == SerializeCreateTicket(request)
    IN  [method |-> METHOD_POST,
         url |-> self.api_url \o TicketPath,
         content_type |-> CONTENT_TYPE_JSON,
         content_length |-> Len(body),
         body |-> body]

NoAuthentication ==
    [ticket |-> [product |-> "", userid |-> "", raw |-> <<>>],
     csrfprevention_token |-> "", clustername |-> None, userid |-> "",
     api_url |-> <<>>]

NoChallenge ==
    [api_url |-> <<>>, pve_compat |-> FALSE, userid |-> "", ticket |-> <<>>,
     challenge |-> NoTfaChallenge]

ResponseErr(msg) ==
    [kind |-> "err", err |-> msg, auth |-> NoAuthentication, chal |-> NoChallenge]

\* Login::response's Full branch without the check of the ticket's userid.
Login_response_full_no_userid_check(self, response, ticket) ==
    IF ~IsSome(response.csrfprevention_token)
    THEN ResponseErr("missing CSRFPreventionToken in ticket response")
    ELSE [kind |-> "full", err |-> "",
          auth |-> [csrfprevention_token |-> response.csrfprevention_token[1],
                    clustername |-> response.clustername,
                    api_url |-> self.api_url,
                    userid |-> response.username,
                    ticket |-> ticket],
          chal |-> NoChallenge]

\* The Full branch of Login::response.
Login_response_full(self, response, ticket) ==
    IF ticket.userid # self.userid
    THEN ResponseErr("returned ticket contained unexpected userid")
    ELSE IF ~IsSome(response.csrfprevention_token)
    THEN ResponseErr("missing CSRFPreventionToken in ticket response")
    ELSE [kind |-> "full", err |-> "",
          auth |-> [csrfprevention_token |-> response.csrfprevention_token[1],
                    clustername |-> response.clustername,
                    api_url |-> self.api_url,
                    userid |-> response.username,
                    ticket |-> ticket],
          chal |-> NoChallenge]

\* Login::response's Tfa branch asking for a CSRF token like the Full branch.
Login_response_tfa_requires_csrf(self, response, ticket, tfa) ==
    IF ~IsSome(response.csrfprevention_token)
    THEN ResponseErr("missing CSRFPreventionToken in ticket response")
    ELSE [kind |-> "tfa", err |-> "", auth |-> NoAuthentication,
          chal |-> [api_url |-> self.api_url,
                    pve_compat |-> self.pve_compat,
                    userid |-> response.username,
                    ticket |-> ticket,
                    challenge |-> tfa]]

\* The Tfa branch of Login::response.
Login_response_tfa(self, response, ticket, tfa) ==
    [kind |-> "tfa", err |-> "", auth |-> NoAuthentication,
     chal |-> [api_url |-> self.api_url,
               pve_compat |-> self.pve_compat,
               userid |-> response.username,
               ticket |-> ticket,
               challenge |-> tfa]]

\* The branch on the parsed ticket, lines 144-169 of Login::response.
Login_response_ticket(self, response) ==
    LET parsed == ParseTicketResponse(response.ticket[1]) IN
    IF ~parsed.ok THEN ResponseErr("ticket")
    ELSE IF parsed.kind = "full"
    THEN Login_response_full(self, response, parsed.ticket)
    ELSE Login_response_tfa(self, response, response.ticket[1], parsed.challenge)

\* Login::response without the comparison of the response's username.
Login_response_no_username_check(self, body) ==
    IF ~body.wellformed THEN ResponseErr("json")
    ELSE IF ~IsSome(body.data) THEN ResponseErr("missing response data")
    ELSE IF ~IsSome(body.data[1].ticket) THEN ResponseErr("missing ticket")
    ELSE Login_response_ticket(self, body.data[1])

\* Login::response taking a default CreateTicketResponse for a missing `data`.
Login_response_default_data(self, body) ==
    IF ~body.wellformed THEN ResponseErr("json")
    ELSE LET response == IF IsSome(body.data) THEN body.data[1]
                         ELSE [username |-> "", ticket |-> None,
                               csrfprevention_token |-> None, clustername |-> None]
         IN  IF response.username # self.userid
             THEN ResponseErr("ticket response contained unexpected userid")
             ELSE IF ~IsSome(response.ticket) THEN ResponseErr("missing ticket")
             ELSE Login_response_ticket(self, response)

Login_response(self, body) ==
    IF ~body.wellformed THEN ResponseErr("json")
    ELSE IF ~IsSome(body.data) THEN ResponseErr("missing response data")
    ELSE LET response == body.data[1] IN
         IF response.username # self.userid
         THEN ResponseErr("ticket response contained unexpected userid")
         ELSE IF ~IsSome(response.ticket) THEN ResponseErr("missing ticket")
         ELSE Login_response_ticket(self, response)

\* ---------------------------------------------------------------- SecondFactorChallenge

TfaOk(request) == [ok |-> TRUE, err |-> "", req |-> request]

TfaUnavailable == [ok |-> FALSE, err |-> "Unavailable", req |-> NoRequest]

\* respond_raw leaving the partial ticket out of the request.
Challenge_respond_raw_no_partial_ticket(self, data) ==
    LET request == [new_format |-> ThenSomeTrue(self.pve_compat),
                    username |-> self.userid,
                    password |-> data,
                    tfa_challenge |-> None]
        body == SerializeCreateTicket(request)
    IN  TfaOk([method |-> METHOD_POST,
               url |-> self.api_url \o TicketPath,
               content_type |-> CONTENT_TYPE_JSON,
               content_length |-> Len(body),
               body |-> body])

Challenge_respond_raw(self, data) ==
    LET request == [new_format |-> ThenSomeTrue(self.pve_compat),
                    username |-> self.userid,
                    password |-> data,
                    tfa_challenge |-> Some(self.ticket)]
        body == SerializeCreateTicket(request)
    IN  TfaOk([method |-> METHOD_POST,
               url |-> self.api_url \o TicketPath,
               content_type |-> CONTENT_TYPE_JSON,
               content_length |-> Len(body),
               body |-> body])

\* respond_yubico without the availability check.
Challenge_respond_yubico_unchecked(self, code) ==
    Challenge_respond_raw(self, <<"yubico">> \o code)

Challenge_respond_yubico(self, code) ==
    IF ~self.challenge.yubico
    THEN TfaUnavailable
    ELSE Challenge_respond_raw(self, <<"yubico">> \o code)

\* respond_totp without the availability check.
Challenge_respond_totp_unchecked(self, code) ==
    Challenge_respond_raw(self, <<"totp">> \o code)

Challenge_respond_totp(self, code) ==
    IF ~self.challenge.totp
    THEN TfaUnavailable
    ELSE Challenge_respond_raw(self, <<"totp">> \o code)

Challenge_respond_recovery(self, code) ==
    IF ~RecoveryIsAvailable(self.challenge.recovery)
    THEN TfaUnavailable
    ELSE Challenge_respond_raw(self, <<"recovery">> \o code)

Challenge_respond_webauthn(self, json_string) ==
    IF ~IsSome(self.challenge.webauthn)
    THEN TfaUnavailable
    ELSE Challenge_respond_raw(self, <<"webauthn">> \o json_string)

Challenge_respond(self, method, code) ==
    CASE method = "yubico" -> Challenge_respond_yubico(self, code)
      [] method = "totp" -> Challenge_respond_totp(self, code)
      [] method = "recovery" -> Challenge_respond_recovery(self, code)
      [] method = "webauthn" -> Challenge_respond_webauthn(self, code)

\* The Authentication built by SecondFactorChallenge::response.
Challenge_authentication(self, response, ticket) ==
    [kind |-> "auth", err |-> "",
     auth |-> [ticket |-> ticket,
               csrfprevention_token |-> response.csrfprevention_token[1],
               clustername |-> response.clustername,
               userid |-> response.username,
               api_url |-> self.api_url],
     chal |-> NoChallenge]

\* SecondFactorChallenge::response taking an empty CSRF token for a missing one.
Challenge_response_no_csrf(self, body) ==
    IF ~body.wellformed THEN ResponseErr("json")
    ELSE IF ~IsSome(body.data) THEN ResponseErr("missing response data")
    ELSE LET response == body.data[1] IN
         IF response.username # self.userid
         THEN ResponseErr("ticket response contained unexpected userid")
         ELSE IF ~IsSome(response.ticket) THEN ResponseErr("no ticket in response")
         ELSE LET parsed == ParseTicket(response.ticket[1]) IN
              IF ~parsed.ok THEN ResponseErr("ticket")
              ELSE IF parsed.ticket.userid # self.userid
              THEN ResponseErr("returned ticket contained unexpected userid")
              ELSE Challenge_authentication(
                       self,
                       [response EXCEPT !.csrfprevention_token =
                            IF IsSome(@) THEN @ ELSE Some("")],
                       parsed.ticket)

\* SecondFactorChallenge::response without the check of the ticket's userid.
Challenge_response_no_ticket_userid_check(self, body) ==
    IF ~body.wellformed THEN ResponseErr("json")
    ELSE IF ~IsSome(body.data) THEN ResponseErr("missing response data")
    ELSE LET response == body.data[1] IN
         IF response.username # self.userid
         THEN ResponseErr("ticket response contained unexpected userid")
         ELSE IF ~IsSome(response.ticket) THEN ResponseErr("no ticket in response")
         ELSE LET parsed == ParseTicket(response.ticket[1]) IN
              IF ~parsed.ok THEN ResponseErr("ticket")
              ELSE IF ~IsSome(response.csrfprevention_token)
              THEN ResponseErr("missing CSRFPreventionToken in ticket response")
              ELSE Challenge_authentication(self, response, parsed.ticket)

Challenge_response(self, body) ==
    IF ~body.wellformed THEN ResponseErr("json")
    ELSE IF ~IsSome(body.data) THEN ResponseErr("missing response data")
    ELSE LET response == body.data[1] IN
         IF response.username # self.userid
         THEN ResponseErr("ticket response contained unexpected userid")
         ELSE IF ~IsSome(response.ticket) THEN ResponseErr("no ticket in response")
         ELSE LET parsed == ParseTicket(response.ticket[1]) IN
              IF ~parsed.ok THEN ResponseErr("ticket")
              ELSE IF parsed.ticket.userid # self.userid
              THEN ResponseErr("returned ticket contained unexpected userid")
              ELSE IF ~IsSome(response.csrfprevention_token)
              THEN ResponseErr("missing CSRFPreventionToken in ticket response")
              ELSE Challenge_authentication(self, response, parsed.ticket)

\* ---------------------------------------------------------------- state machine

\* The model follows one login session.  A Login and the challenge its
\* response produces share no state (every method takes &self and the
\* challenge holds copies of the Login's fields), so once a response has
\* produced a challenge the session continues on the challenge, and
\* constructing a Login starts a new session.
\*
\* `last` records the most recent call: the operation, its inputs and what it
\* returned.  `responds` counts the follow-up requests built from the
\* challenge.

NoBody == [wellformed |-> FALSE, data |-> None]

Call(op) ==
    [op |-> op, body |-> NoBody, method |-> "", data |-> <<>>, kind |-> "ok",
     err |-> "", req |-> NoRequest, auth |-> NoAuthentication]

Tickets == {ParseTicket(t).ticket : t \in {r \in TicketStrings : ParseTicket(r).ok}}

Logins ==
    {Login_new(u, id, pw) : u \in Urls, id \in Userids, pw \in Passwords}
    \cup {Login_renew_ticket(u, t) : u \in Urls, t \in Tickets}

Init ==
    /\ login \in Logins
    /\ challenge = None
    /\ responds = 0
    /\ last = Call("init")

New ==
    \E u \in Urls, id \in Userids, pw \in Passwords :
        /\ login' = Login_new(u, id, pw)
        /\ challenge' = None
        /\ responds' = 0
        /\ last' = Call("new")
        /\ UNCHANGED <<realmVars, pureVars>>

Renew ==
    \E u \in Urls, t \in TicketStrings :
        /\ IF ParseTicket(t).ok
           THEN /\ login' = Login_renew_ticket(u, ParseTicket(t).ticket)
                /\ challenge' = None
                /\ responds' = 0
                /\ last' = [Call("renew") EXCEPT !.data = t]
           ELSE /\ last' = [Call("renew") EXCEPT
                                !.data = t, !.kind = "err", !.err = ParseTicket(t).err]
                /\ UNCHANGED <<login, challenge, responds>>
        /\ UNCHANGED <<realmVars, pureVars>>

RenewTicket ==
    \E u \in Urls, t \in Tickets :
        /\ login' = Login_renew_ticket(u, t)
        /\ challenge' = None
        /\ responds' = 0
        /\ last' = [Call("renew_ticket") EXCEPT !.data = t.raw]
        /\ UNCHANGED <<realmVars, pureVars>>

SetUrl ==
    \E u \in Urls :
        /\ ~IsSome(challenge)
        /\ login' = Login_set_url(login, u)
        /\ last' = Call("set_url")
        /\ UNCHANGED <<challenge, responds>>
        /\ UNCHANGED <<realmVars, pureVars>>

PveCompatibility ==
    \E b \in BOOLEAN :
        /\ ~IsSome(challenge)
        /\ login' = Login_pve_compatibility(login, b)
        /\ last' = [Call("pve_compatibility") EXCEPT
                        !.data = <<IF b THEN "true" ELSE "false">>]
        /\ UNCHANGED <<challenge, responds>>
        /\ UNCHANGED <<realmVars, pureVars>>

Request ==
    /\ ~IsSome(challenge)
    /\ last' = [Call("request") EXCEPT !.kind = "request", !.req = Login_request(login)]
    /\ UNCHANGED <<login, challenge, responds>>
    /\ UNCHANGED <<realmVars, pureVars>>

LoginResponse ==
    \E body \in Bodies :
        /\ ~IsSome(challenge)
        /\ LET r == Login_response(login, body) IN
           /\ last' = [Call("Login::response") EXCEPT
                           !.body = body, !.kind = r.kind, !.err = r.err,
                           !.auth = r.auth]
           /\ challenge' = IF r.kind = "tfa" THEN Some(r.chal) ELSE challenge
        /\ UNCHANGED <<login, responds>>
        /\ UNCHANGED <<realmVars, pureVars>>

Respond ==
    \E m \in Methods, code \in Codes :
        /\ IsSome(challenge)
        /\ responds < MaxResponds
        /\ LET r == Challenge_respond(challenge[1], m, code) IN
           /\ last' = [Call("respond") EXCEPT
                           !.method = m, !.data = code,
                           !.kind = IF r.ok THEN "request" ELSE "err",
                           !.err = r.err, !.req = r.req]
           /\ responds' = IF r.ok THEN responds + 1 ELSE responds
        /\ UNCHANGED <<login, challenge>>
        /\ UNCHANGED <<realmVars, pureVars>>

RespondRaw ==
    \E data \in RawDatas :
        /\ IsSome(challenge)
        /\ responds < MaxResponds
        /\ LET r == Challenge_respond_raw(challenge[1], data) IN
           /\ last' = [Call("respond_raw") EXCEPT
                           !.data = data,
                           !.kind = IF r.ok THEN "request" ELSE "err",
                           !.err = r.err, !.req = r.req]
           /\ responds' = IF r.ok THEN responds + 1 ELSE responds
        /\ UNCHANGED <<login, challenge>>
        /\ UNCHANGED <<realmVars, pureVars>>

ChallengeResponse ==
    \E body \in Bodies :
        /\ IsSome(challenge)
        /\ LET r == Challenge_response(challenge[1], body) IN
           last' = [Call("SecondFactorChallenge::response") EXCEPT
                        !.body = body, !.kind = r.kind, !.err = r.err,
                        !.auth = r.auth]
        /\ UNCHANGED <<login, challenge, responds>>
        /\ UNCHANGED <<realmVars, pureVars>>

Next ==
    \/ New
    \/ Renew
    \/ RenewTicket
    \/ SetUrl
    \/ PveCompatibility
    \/ Request
    \/ LoginResponse
    \/ Respond
    \/ RespondRaw
    \/ ChallengeResponse

\* ---------------------------------------------------------------- properties

IsLoginResponse == last.op = "Login::response"

IsChallengeResponse == last.op = "SecondFactorChallenge::response"

\* The userid of the object whose response method ran last.
SelfUserid == IF IsChallengeResponse THEN challenge[1].userid ELSE login.userid

HasData(body) == body.wellformed /\ IsSome(body.data)

\* The response names the requested user.
UsernameMatches == HasData(last.body) /\ last.body.data[1].username = SelfUserid

\* What the claims call a method the challenge offers.
Offers(c, m) ==
    CASE m = "totp" -> c.totp
      [] m = "yubico" -> c.yubico
      [] m = "recovery" -> c.recovery # "unavailable"
      [] m = "webauthn" -> c.webauthn # None

\* The response carries a ticket that parses as a plain ticket.
HasPlainTicket(body) ==
    /\ HasData(body)
    /\ IsSome(body.data[1].ticket)
    /\ ParseTicketResponse(body.data[1].ticket[1]).ok
    /\ ParseTicketResponse(body.data[1].ticket[1]).kind = "full"

\* The response carries a (partial ticket, challenge) ticket.
HasTfaTicket(body) ==
    /\ HasData(body)
    /\ IsSome(body.data[1].ticket)
    /\ ParseTicketResponse(body.data[1].ticket[1]).ok
    /\ ParseTicketResponse(body.data[1].ticket[1]).kind = "tfa"

HasCsrf(body) == HasData(body) /\ IsSome(body.data[1].csrfprevention_token)

\* C1: a response whose username differs from the userid of the Login or of
\* the challenge it is passed to is answered with an error, whatever ticket,
\* CSRF token or challenge it carries.
C1_UsernameMismatchRejected ==
    ((IsLoginResponse \/ IsChallengeResponse)
        /\ HasData(last.body) /\ last.body.data[1].username # SelfUserid)
    => (last.kind = "err" /\ last.auth = NoAuthentication)

\* C1 witness: Login::response rejected a response for another user whose
\* ticket and CSRF token would validate for the Login's user.
C1_Witness ==
    /\ IsLoginResponse
    /\ HasPlainTicket(last.body) /\ HasCsrf(last.body)
    /\ ParseTicket(last.body.data[1].ticket[1]).ticket.userid = login.userid
    /\ last.body.data[1].username # login.userid
    /\ last.kind = "err"

\* C2: TicketResult::Full is returned only for a ticket of the Login's user
\* with a CSRF token present, and carries the Login's userid and api_url; a
\* plain ticket of another user, or one without CSRF token, is an error.
C2_FullOnlyForOwnTicketWithCsrf ==
    IsLoginResponse =>
        /\ last.kind = "full" =>
              /\ HasPlainTicket(last.body)
              /\ last.auth.ticket = ParseTicket(last.body.data[1].ticket[1]).ticket
              /\ last.auth.ticket.userid = login.userid
              /\ HasCsrf(last.body)
              /\ last.auth.csrfprevention_token =
                     last.body.data[1].csrfprevention_token[1]
              /\ last.auth.userid = login.userid
              /\ last.auth.api_url = login.api_url
        /\ (HasPlainTicket(last.body)
              /\ (ParseTicket(last.body.data[1].ticket[1]).ticket.userid # login.userid
                    \/ ~HasCsrf(last.body)))
           => last.kind = "err"

\* C2 witness: Login::response returned Full.
C2_Witness == IsLoginResponse /\ last.kind = "full"

\* C3: a matching username with a (partial ticket, challenge) ticket gives
\* TfaRequired, with or without CSRF token, and no Authentication.
C3_ChallengeWithoutCsrf ==
    (IsLoginResponse /\ UsernameMatches /\ HasTfaTicket(last.body))
    => /\ last.kind = "tfa"
       /\ last.auth = NoAuthentication
       /\ IsSome(challenge)
       /\ challenge[1].ticket = last.body.data[1].ticket[1]

\* C3 witness: TfaRequired for a response without CSRF token.
C3_Witness ==
    /\ IsLoginResponse /\ UsernameMatches /\ HasTfaTicket(last.body)
    /\ ~HasCsrf(last.body)
    /\ last.kind = "tfa"

\* The response validates for the challenge: it names the challenge's user,
\* its ticket parses as a ticket of that user, and it has a CSRF token.
ValidatesForChallenge(body) ==
    /\ HasData(body)
    /\ body.data[1].username = challenge[1].userid
    /\ IsSome(body.data[1].ticket)
    /\ ParseTicket(body.data[1].ticket[1]).ok
    /\ ParseTicket(body.data[1].ticket[1]).ticket.userid = challenge[1].userid
    /\ IsSome(body.data[1].csrfprevention_token)

\* C4 as stated: a challenge yields an Authentication only when exactly one
\* follow-up request was built from it.
C4_AuthOnlyAfterOneRespond ==
    (IsChallengeResponse /\ last.kind = "auth") => responds = 1

\* C4 as amended: SecondFactorChallenge::response yields an Authentication
\* exactly when the response validates for the challenge, however many
\* follow-up requests were built from the challenge (none, one or several).
C4_AuthIndependentOfResponds ==
    IsChallengeResponse =>
        /\ responds \in 0..MaxResponds
        /\ last.kind = "auth" <=> ValidatesForChallenge(last.body)

\* C4 witness: an Authentication from a challenge no follow-up request was
\* built from.
C4_Witness == IsChallengeResponse /\ last.kind = "auth" /\ responds = 0

\* C5: respond_<method> returns Unavailable and no request exactly when the
\* challenge does not offer the method, and a request when it does.
C5_UnavailableIffNotOffered ==
    last.op = "respond" =>
        /\ (last.kind = "err" /\ last.err = "Unavailable" /\ last.req = NoRequest)
              <=> ~Offers(challenge[1].challenge, last.method)
        /\ (last.kind = "request" /\ last.req # NoRequest)
              <=> Offers(challenge[1].challenge, last.method)

\* C5 witness: respond_totp refused on a challenge with totp = false.
C5_Witness ==
    /\ last.op = "respond" /\ last.method = "totp"
    /\ ~challenge[1].challenge.totp
    /\ last.kind = "err" /\ last.err = "Unavailable"

\* The password field of the request built last names a second-factor method.
PasswordMethod ==
    LET pw == BodyField(last.req.body, "password") IN
    IF IsSome(pw) /\ Len(pw[1]) >= 2 /\ pw[1][1] \in Methods
    THEN Some(pw[1][1]) ELSE None

IsFollowUp == last.kind = "request" /\ last.op \in {"respond", "respond_raw"}

\* C6 as stated: no public operation of the challenge builds a follow-up
\* request '<method>:<data>' for a method the challenge does not offer.
C6_NoRequestForUnofferedMethod ==
    (IsFollowUp /\ IsSome(PasswordMethod))
    => Offers(challenge[1].challenge, PasswordMethod[1])

\* C6 as amended: a follow-up request built by respond_<method> is for a
\* method the challenge offers; respond_raw makes no availability check and
\* builds a request with its data as the password, whatever the data.
C6_OnlyRespondMethodsChecked ==
    /\ (last.op = "respond" /\ last.kind = "request")
          => /\ PasswordMethod = Some(last.method)
             /\ Offers(challenge[1].challenge, last.method)
    /\ last.op = "respond_raw"
          => /\ last.kind = "request"
             /\ BodyField(last.req.body, "password") = Some(last.data)

\* C6 witness: respond_raw built a request for a method that is not offered.
C6_Witness ==
    /\ last.op = "respond_raw" /\ last.kind = "request"
    /\ IsSome(PasswordMethod)
    /\ ~Offers(challenge[1].challenge, PasswordMethod[1])

\* C7: SecondFactorChallenge::response returns an Authentication or an error
\* and never a challenge; an Authentication only for a response naming the
\* challenge's user, with a ticket of that user and a CSRF token.
C7_ChallengeResponseTerminal ==
    IsChallengeResponse =>
        /\ last.kind \in {"auth", "err"}
        /\ HasTfaTicket(last.body) => last.kind = "err"
        /\ last.kind = "auth" =>
              /\ last.body.data[1].username = challenge[1].userid
              /\ last.auth.ticket = ParseTicket(last.body.data[1].ticket[1]).ticket
              /\ last.auth.ticket.userid = challenge[1].userid
              /\ HasCsrf(last.body)
              /\ last.auth.userid = challenge[1].userid

\* C7 witness: a further challenge sent for the challenge's user is an error.
C7_Witness ==
    /\ IsChallengeResponse /\ UsernameMatches /\ HasTfaTicket(last.body)
    /\ last.kind = "err"

HasNoTrailingSlash(url) == url = <<>> \/ url[Len(url)] # "/"

\* C8: the URL of every request built by request() is the api_url without
\* trailing slash followed by the ticket path, and the api_url copied into a
\* challenge or an Authentication has no trailing slash.
C8_RequestUrlNormalized ==
    /\ last.op = "request" =>
          /\ last.req.url = login.api_url \o TicketPath
          /\ HasNoTrailingSlash(login.api_url)
    /\ (IsLoginResponse /\ last.kind = "full") => HasNoTrailingSlash(last.auth.api_url)
    /\ IsSome(challenge) => HasNoTrailingSlash(challenge[1].api_url)

\* C9: the request built by a successful respond_<method>(data) is a POST to
\* the challenge's api_url + ticket path with the challenge's userid, the
\* password '<method>:<data>' and the partial ticket as tfa-challenge; the
\* api_url, userid and pve_compat are those of the Login that produced the
\* challenge.
C9_FollowUpRequest ==
    (last.op = "respond" /\ last.kind = "request") =>
        /\ last.req.method = "POST"
        /\ last.req.url = challenge[1].api_url \o TicketPath
        /\ BodyField(last.req.body, "username") = Some(<<challenge[1].userid>>)
        /\ BodyField(last.req.body, "password") = Some(<<last.method>> \o last.data)
        /\ BodyField(last.req.body, "tfa-challenge") = Some(challenge[1].ticket)
        /\ ParseTicketResponse(challenge[1].ticket).kind = "tfa"
        /\ challenge[1].api_url = login.api_url
        /\ challenge[1].userid = login.userid
        /\ challenge[1].pve_compat = login.pve_compat
        /\ IsSome(BodyField(last.req.body, "new-format")) <=> login.pve_compat

\* C9 witness: a follow-up request for a Login with the compatibility flag
\* and an api_url set by set_url.
C9_Witness ==
    /\ last.op = "respond" /\ last.kind = "request"
    /\ login.pve_compat
    /\ ~HasNoTrailingSlash(login.api_url)

\* C10: a response without `data` fails with 'missing response data', and a
\* response with matching username and no ticket fails, in Login::response
\* and in SecondFactorChallenge::response; neither gives an Authentication
\* or a challenge.
C10_MissingDataOrTicket ==
    (IsLoginResponse \/ IsChallengeResponse) =>
        /\ (last.body.wellformed /\ ~IsSome(last.body.data))
              => /\ last.kind = "err"
                 /\ last.err = "missing response data"
                 /\ last.auth = NoAuthentication
        /\ (UsernameMatches /\ ~IsSome(last.body.data[1].ticket))
              => /\ last.kind = "err"
                 /\ last.err \in {"missing ticket", "no ticket in response"}
                 /\ last.auth = NoAuthentication

\* C10 witness: SecondFactorChallenge::response on a response whose data has
\* the challenge's username and no ticket.
C10_Witness ==
    /\ IsChallengeResponse /\ UsernameMatches
    /\ ~IsSome(last.body.data[1].ticket)
    /\ last.kind = "err"

\* What C11 says of the state a constructor or pve_compatibility leaves.
C11_State ==
    /\ (last.op \in {"renew", "renew_ticket"} /\ last.kind = "ok") =>
          /\ ParseTicket(last.data).ok
          /\ login.pve_compat <=> (last.data[1] = "PVE")
          /\ login.userid = last.data[2]
          /\ login.password = last.data
    /\ (last.op = "renew" /\ ~ParseTicket(last.data).ok) =>
          /\ last.kind = "err"
          /\ last.err \in {"Invalid", "Malformed"}
    /\ last.op = "new" => ~login.pve_compat
    /\ last.op = "pve_compatibility" => (login.pve_compat <=> (last.data = <<"true">>))

\* What C11 says of a step: a failed renew constructs no Login, and only a
\* constructor or pve_compatibility changes the flag.
C11_Step ==
    /\ (last'.op = "renew" /\ last'.kind = "err") => login' = login
    /\ last'.op \notin {"new", "renew", "renew_ticket", "pve_compatibility"}
          => login'.pve_compat = login.pve_compat

\* C11: a Login built by renew or renew_ticket has pve_compat = true exactly
\* when the ticket's product is 'PVE', the ticket's userid and the ticket
\* string as password; a Login built by new has pve_compat = false until
\* pve_compatibility(b) sets it to b; renew with a string that is no ticket
\* returns a TicketError and constructs no Login.
C11_RenewAndCompat == [](C11_State) /\ [][C11_Step]_vars

\* C11 witness: renew with a ticket of another product left the flag false.
C11_Witness ==
    /\ last.op = "renew" /\ last.kind = "ok"
    /\ last.data[1] = "PDM"
    /\ ~login.pve_compat

\* C12: Login::request yields a POST with content type application/json, a
\* content_length equal to the body length and a body with the Login's userid
\* and password; the body has new-format: true exactly when pve_compat is
\* true and never a tfa-challenge; the call does not modify the Login.
C12_LoginRequest ==
    /\ [](last.op = "request" =>
            /\ last.kind = "request"
            /\ last.req.method = "POST"
            /\ last.req.content_type = "application/json"
            /\ last.req.content_length = Len(last.req.body)
            /\ BodyField(last.req.body, "username") = Some(<<login.userid>>)
            /\ BodyField(last.req.body, "password") = Some(login.password)
            /\ IsSome(BodyField(last.req.body, "new-format")) <=> login.pve_compat
            /\ IsSome(BodyField(last.req.body, "new-format"))
                  => BodyField(last.req.body, "new-format") = Some(<<"true">>)
            /\ ~IsSome(BodyField(last.req.body, "tfa-challenge")))
    /\ [][last'.op = "request" => login' = login]_vars

\* C12 witness: a request of a Login with the compatibility flag.
C12_Witness ==
    /\ last.op = "request" /\ login.pve_compat
    /\ IsSome(BodyField(last.req.body, "new-format"))

\* ================================================================ realm store
\*
\* Model of the LDAP realm handlers (create_ldap_realm, update_ldap_realm,
\* delete_ldap_realm, list_ldap_realms) over the section file domains.cfg,
\* its lock file and the store of bind passwords.
\*
\* The content of domains.cfg is the sequence of its sections, each with its
\* id, its type and its properties; SectionConfigData is the map of the
\* sections and the list of their ids in file order.

\* ---------------------------------------------------------------- realm data

\* LdapRealmConfig; optional properties are options.
LdapRealm(realm, default) ==
    [realm |-> realm, server1 |-> "ldap.example.com", server2 |-> None,
     port |-> None, base_dn |-> "dc=example", user_attr |-> "uid",
     comment |-> None, default |-> default, mode |-> None, verify |-> None,
     bind_dn |-> None, filter |-> None, sync_defaults_options |-> None,
     sync_attributes |-> None, user_classes |-> None]

\* LdapRealmConfigUpdater: every property is an option.
NoUpdate ==
    [server1 |-> None, server2 |-> None, port |-> None, base_dn |-> None,
     user_attr |-> None, comment |-> None, default |-> None, mode |-> None,
     verify |-> None, bind_dn |-> None, filter |-> None,
     sync_defaults_options |-> None, sync_attributes |-> None,
     user_classes |-> None]

DeletableProperty ==
    {"Server2", "Port", "Comment", "Default", "Verify", "Mode", "BindDn",
     "Password", "Filter", "SyncDefaultsOptions", "SyncAttributes",
     "UserClasses"}

\* A section of the file.
Section(id, type, data) == [id |-> id, type |-> type, data |-> data]

EmptyData == [sections |-> <<>>, order |-> <<>>]

RECURSIVE SeqOfSet(_)
SeqOfSet(S) ==
    IF S = {} THEN <<>>
    ELSE LET x == CHOOSE y \in S : TRUE IN <<x>> \o SeqOfSet(S \ {x})

RECURSIVE SelectIn(_, _)
SelectIn(order, ids) ==
    IF order = <<>> THEN <<>>
    ELSE (IF order[1] \in ids THEN <<order[1]>> ELSE <<>>)
         \o SelectIn(Tail(order), ids)

SeqRange(q) == {q[i] : i \in 1..Len(q)}

\* SectionConfig::parse: the sections by id, and their ids in file order.
ParseConfig(content) ==
    [sections |-> [id \in {content[i].id : i \in 1..Len(content)} |->
                      LET i == CHOOSE j \in 1..Len(content) : content[j].id = id
                      IN  [type |-> content[i].type, data |-> content[i].data]],
     order |-> [i \in 1..Len(content) |-> content[i].id]]

\* SectionConfig::write: the sections named by the order list, in that order,
\* then the sections the order list does not name.
WriteConfig(data) ==
    LET ids == DOMAIN data.sections
        listed == SelectIn(data.order, ids)
        all == listed \o SeqOfSet(ids \ SeqRange(listed))
    IN  [i \in 1..Len(all) |->
            Section(all[i], data.sections[all[i]].type, data.sections[all[i]].data)]

\* A digest on which all contents collide.
Sha256_constant(content) == <<"sha256">>

\* openssl::sha::sha256 of the content: equal contents have equal digests,
\* and no two contents of the model collide.
Sha256(content) == <<"sha256", content>>

\* SectionConfigData::set_data: insert or replace, and record the id in the
\* order list when it is new.
SetData(data, id, type, config) ==
    [sections |-> [k \in DOMAIN data.sections \cup {id} |->
                      IF k = id THEN [type |-> type, data |-> config]
                      ELSE data.sections[k]],
     order |-> IF id \in SeqRange(data.order) THEN data.order
               ELSE Append(data.order, id)]

\* HashMap::remove on data.sections: the order list is left alone.
RemoveSection(data, id) ==
    [data EXCEPT !.sections = [k \in DOMAIN data.sections \ {id} |-> data.sections[k]]]

\* SectionConfigData::lookup(type, id): the section must exist with that type.
LookupOk(data, type, id) ==
    id \in DOMAIN data.sections /\ data.sections[id].type = type

\* The error of a failed lookup: the section is missing, or has another type.
LookupError(data, type, id) ==
    IF id \notin DOMAIN data.sections THEN "no such realm" ELSE "unexpected type"

\* domains::exists
Exists(data, realm) == realm \in DOMAIN data.sections

\* domains::unset_default_realm: the default flag of every realm is removed.
UnsetDefaultRealm(data) ==
    [data EXCEPT !.sections =
        [k \in DOMAIN data.sections |->
            [data.sections[k] EXCEPT !.data.default = None]]]

\* ConfigDigest::detect_modification
\* A digest check that never reports a modification.
DigestConflict_never(current, user_digest) == FALSE

\* A digest check that asks for a digest: none is a modification too.
DigestConflict_required(current, user_digest) == user_digest # Some(current)

DigestConflict(current, user_digest) ==
    IsSome(user_digest) /\ user_digest[1] # current

\* ---------------------------------------------------------------- update_ldap_realm

\* str::trim on a comment, a sequence of characters.
RECURSIVE TrimStart(_)
TrimStart(c) == IF c # <<>> /\ c[1] = " " THEN TrimStart(Tail(c)) ELSE c

RECURSIVE TrimEnd(_)
TrimEnd(c) ==
    IF c # <<>> /\ c[Len(c)] = " " THEN TrimEnd(SubSeq(c, 1, Len(c) - 1)) ELSE c

Trim(c) == TrimEnd(TrimStart(c))

\* A delete list entry that clears nothing.
DeleteProperty_noop(config, prop) == config

\* One arm of the match on a DeletableProperty; Password changes no property.
DeleteProperty(config, prop) ==
    CASE prop = "Server2" -> [config EXCEPT !.server2 = None]
      [] prop = "Comment" -> [config EXCEPT !.comment = None]
      [] prop = "Default" -> [config EXCEPT !.default = None]
      [] prop = "Port" -> [config EXCEPT !.port = None]
      [] prop = "Verify" -> [config EXCEPT !.verify = None]
      [] prop = "Mode" -> [config EXCEPT !.mode = None]
      [] prop = "BindDn" -> [config EXCEPT !.bind_dn = None]
      [] prop = "Password" -> config
      [] prop = "Filter" -> [config EXCEPT !.filter = None]
      [] prop = "SyncDefaultsOptions" -> [config EXCEPT !.sync_defaults_options = None]
      [] prop = "SyncAttributes" -> [config EXCEPT !.sync_attributes = None]
      [] prop = "UserClasses" -> [config EXCEPT !.user_classes = None]

\* The loop over the delete list.
RECURSIVE ApplyDelete(_, _)
ApplyDelete(config, delete) ==
    IF delete = <<>> THEN config
    ELSE ApplyDelete(DeleteProperty(config, delete[1]), Tail(delete))

\* The properties taken from the updater, in the order of the handler.
ApplyUpdate(config, update) ==
    [realm |-> config.realm,
     server1 |-> IF IsSome(update.server1) THEN update.server1[1] ELSE config.server1,
     server2 |-> IF IsSome(update.server2) THEN update.server2 ELSE config.server2,
     port |-> IF IsSome(update.port) THEN update.port ELSE config.port,
     base_dn |-> IF IsSome(update.base_dn) THEN update.base_dn[1] ELSE config.base_dn,
     user_attr |-> IF IsSome(update.user_attr) THEN update.user_attr[1]
                   ELSE config.user_attr,
     comment |-> IF IsSome(update.comment)
                 THEN (IF Trim(update.comment[1]) = <<>> THEN None
                       ELSE Some(Trim(update.comment[1])))
                 ELSE config.comment,
     default |-> IF update.default = Some(TRUE) THEN Some(TRUE) ELSE None,
     mode |-> IF IsSome(update.mode) THEN update.mode ELSE config.mode,
     verify |-> IF IsSome(update.verify) THEN update.verify ELSE config.verify,
     bind_dn |-> IF IsSome(update.bind_dn) THEN update.bind_dn ELSE config.bind_dn,
     filter |-> IF IsSome(update.filter) THEN update.filter ELSE config.filter,
     sync_defaults_options |-> IF IsSome(update.sync_defaults_options)
                               THEN update.sync_defaults_options
                               ELSE config.sync_defaults_options,
     sync_attributes |-> IF IsSome(update.sync_attributes) THEN update.sync_attributes
                         ELSE config.sync_attributes,
     user_classes |-> IF IsSome(update.user_classes) THEN update.user_classes
                      ELSE config.user_classes]

\* An update that leaves the default flags of the other realms.
UpdateDomains_keep(domains, update) == domains

\* An update that applies the payload first and the delete list after it.
UpdatedConfig_set_then_delete(config, delete, update) ==
    ApplyDelete(ApplyUpdate(config, update), delete)

\* The record update_ldap_realm builds: the delete list, then the payload.
UpdatedConfig(config, delete, update) ==
    ApplyUpdate(ApplyDelete(config, delete), update)

\* The section data of update_ldap_realm before the connection check: every
\* default flag is removed when the update sets default = true.
UpdateDomains(domains, update) ==
    IF update.default = Some(TRUE) THEN UnsetDefaultRealm(domains) ELSE domains

\* A create that leaves the default flags of the other realms.
CreateDomains_keep_default(domains, config) ==
    SetData(domains, config.realm, "ldap", config)

\* The section data create_ldap_realm saves.
CreateDomains(domains, config) ==
    SetData(IF config.default = Some(TRUE) THEN UnsetDefaultRealm(domains) ELSE domains,
            config.realm, "ldap", config)

\* ---------------------------------------------------------------- realm inputs

Procs == 1..MaxProcs

\* The realm ids of the requests, and those of the LDAP realms among them.
RealmIds == {"ldap1", "ldap2", "openid1"}

LdapIds == {"ldap1", "ldap2"}

\* An OpenID realm, as the file holds it.
OpenIdRealm(realm, default) ==
    [realm |-> realm, issuer_url |-> "https://idp.example.com", client_id |-> "pdm",
     comment |-> None, default |-> default]

\* domains.cfg before the first handler runs: an OpenID realm, the default,
\* and an LDAP realm.
InitialContent ==
    <<Section("openid1", "openid", OpenIdRealm("openid1", Some(TRUE))),
      Section("ldap1", "ldap", LdapRealm("ldap1", None))>>

BindPasswords == {None, Some("bindpw")}

Defaults == {None, Some(TRUE)}

\* The changes of an update request: default, password, delete list.
Changes ==
    {<<None, None, <<>> >>, <<Some(TRUE), None, <<>> >>, <<None, Some("bindpw"), <<>> >>,
     <<Some(TRUE), Some("bindpw"), <<>> >>, <<None, None, <<"Password">> >>}

\* Digest::to_hex, as list and read hand the digest out, and the digest
\* parameter of update and delete parsed from it.
to_hex(digest) == <<"hex", digest>>

from_hex(text) == text[2]

\* The digests a caller passes: none, the one of the content at hand, the one
\* of the initial content, the one its latest read returned.
Digests(content) ==
    {None, Some(Sha256(content)), Some(Sha256(InitialContent))}
    \cup {Some(from_hex(rd.digest[i])) : i \in 1..Len(rd.digest)}

Req(op, realm, default, password, delete, digest) ==
    [op |-> op, realm |-> realm, default |-> default, password |-> password,
     delete |-> delete, digest |-> digest]

NoReq == Req("", "", None, None, <<>>, None)

CreateReqs ==
    {Req("create", r, d, pw, <<>>, None) : r \in RealmIds, d \in Defaults,
                                           pw \in BindPasswords}

UpdateReqs(content) ==
    {Req("update", r, c[1], c[2], c[3], dg) : r \in RealmIds, c \in Changes,
                                              dg \in Digests(content)}

\* The delete requests of the concurrent store name the LDAP realms; a delete
\* of a realm of another type is followed in SpecTarget.
DeleteReqs(content) ==
    {Req("delete", r, None, None, <<>>, dg) : r \in LdapIds, dg \in Digests(content)}

\* The updater of an update request.
Updater(req) == [NoUpdate EXCEPT !.default = req.default]

\* ---------------------------------------------------------------- realm state

Snapshot(content, stored) == [file |-> content, secrets |-> stored]

\* An invocation that has asked for the lock and holds nothing yet.
Waiting ==
    [pc |-> "lock", req |-> NoReq, domains |-> ParseConfig(<<>>),
     config |-> LdapRealm("", None), before |-> Snapshot(<<>>, {}), checked |-> ""]

NoResult ==
    [p |-> 0, req |-> NoReq, result |-> "", checked |-> "", file_before |-> <<>>,
     file_after |-> <<>>, secrets_before |-> {}, secrets_after |-> {}]

\* The invocation whose replacement of the file is the latest, when it passed
\* the digest of the initial content and changed the content; 0 otherwise.
NoCommit == 0

Commit(p, req, old, new) ==
    IF req.digest = Some(Sha256(InitialContent)) /\ new # old THEN p ELSE NoCommit

\* open_api_lockfile: an exclusive lock is granted when nobody holds the lock.
CanLock(holder, exclusive) == ~exclusive \/ holder = 0

\* A lock_config that asks for a shared lock.
lock_config_shared(holder) == CanLock(holder, FALSE)

\* domains::lock_config asks for the exclusive lock on the lock file.
lock_config(holder) == CanLock(holder, TRUE)

\* A return that keeps the lock file locked.
Return_leak(p, req, result, checked, before, fileAfter, secretsAfter) ==
    /\ proc' = [proc EXCEPT ![p] = Waiting]
    /\ UNCHANGED lock
    /\ rlast' = [p |-> p, req |-> req, result |-> result, checked |-> checked,
                 file_before |-> before.file, file_after |-> fileAfter,
                 secrets_before |-> before.secrets, secrets_after |-> secretsAfter]

\* The handler returns: its lock guard is dropped.
Return(p, req, result, checked, before, fileAfter, secretsAfter) ==
    /\ proc' = [proc EXCEPT ![p] = Waiting]
    /\ lock' = 0
    /\ rlast' = [p |-> p, req |-> req, result |-> result, checked |-> checked,
                 file_before |-> before.file, file_after |-> fileAfter,
                 secrets_before |-> before.secrets, secrets_after |-> secretsAfter]

\* The handler goes on to its next step, holding the lock.
Goto(p, pc, req, domains, config, before, checked) ==
    /\ proc' = [proc EXCEPT ![p] = [pc |-> pc, req |-> req, domains |-> domains,
                                    config |-> config, before |-> before,
                                    checked |-> checked]]
    /\ rlast' = NoResult
    /\ UNCHANGED lock

Step(p, pc, checked) ==
    Goto(p, pc, proc[p].req, proc[p].domains, proc[p].config, proc[p].before, checked)

\* The handler returns from a later step than its read.
Exit(p, result, fileAfter, secretsAfter) ==
    Return(p, proc[p].req, result, proc[p].checked, proc[p].before, fileAfter,
           secretsAfter)

LoginIdle ==
    /\ login = Login_new(<<>>, "alice", <<"secret">>)
    /\ challenge = None
    /\ responds = 0
    /\ last = Call("init")

RealmInit ==
    /\ file = InitialContent
    /\ secrets = {}
    /\ lock = 0
    /\ proc = [p \in Procs |-> Waiting]
    /\ rlast = NoResult
    /\ committed = NoCommit

\* ---------------------------------------------------------------- realm handlers

\* A handler that goes on after a failed connection check.
AfterCheck_ignore(ok) == "store"

\* The position after check_connection: the error is propagated.
AfterCheck(ok) == IF ok THEN "store" ELSE "return"

\* A handler that stores a password whether or not one came.
StoresPassword_always(password) == TRUE

\* if let Some(password) = password { store_ldap_bind_password(..)? }
StoresPassword(password) == IsSome(password)

\* A delete that never misses the realm.
RemoveFoundNothing_never(domains, realm) == FALSE

\* domains.sections.remove(&realm).is_none()
RemoveFoundNothing(domains, realm) == realm \notin DOMAIN domains.sections

\* domains::lock_config returns the guard.
LockConfig(p) ==
    /\ proc[p].pc = "lock"
    /\ lock_config(lock)
    /\ lock' = p
    /\ proc' = [proc EXCEPT ![p].pc = "read"]
    /\ rlast' = NoResult
    /\ UNCHANGED <<file, secrets, committed>>
    /\ UNCHANGED <<loginVars, pureVars>>

\* create_ldap_realm up to the connection check.
CreateRead(p) ==
    \E req \in CreateReqs :
        /\ proc[p].pc = "read"
        /\ LET domains == ParseConfig(file)
               before == Snapshot(file, secrets)
           IN  IF Exists(domains, req.realm)
               THEN Return(p, req, "already exists", "", before, file, secrets)
               ELSE Goto(p, "check", req, domains, LdapRealm(req.realm, req.default),
                         before, "")
        /\ UNCHANGED <<file, secrets, committed>>
        /\ UNCHANGED <<loginVars, pureVars>>

\* update_ldap_realm up to the connection check.  Removing the stored
\* password (Password in the delete list) can fail.
UpdateRead(p) ==
    \E req \in UpdateReqs(file), removed \in BOOLEAN :
        /\ proc[p].pc = "read"
        /\ LET domains == ParseConfig(file)
               before == Snapshot(file, secrets)
               drops == "Password" \in SeqRange(req.delete)
           IN  IF DigestConflict(Sha256(file), req.digest)
               THEN /\ Return(p, req, "conflict", "", before, file, secrets)
                    /\ UNCHANGED secrets
               ELSE IF ~LookupOk(domains, "ldap", req.realm)
               THEN /\ Return(p, req, LookupError(domains, "ldap", req.realm), "",
                              before, file, secrets)
                    /\ UNCHANGED secrets
               ELSE IF drops /\ ~removed
               THEN /\ Return(p, req, "secret error", "", before, file, secrets)
                    /\ UNCHANGED secrets
               ELSE /\ secrets' = IF drops THEN secrets \ {req.realm} ELSE secrets
                    /\ Goto(p, "check", req, UpdateDomains(domains, Updater(req)),
                            UpdatedConfig(domains.sections[req.realm].data, req.delete,
                                          Updater(req)),
                            before, "")
        /\ UNCHANGED <<file, committed>>
        /\ UNCHANGED <<loginVars, pureVars>>

\* delete_ldap_realm up to save_config.
DeleteRead(p) ==
    \E req \in DeleteReqs(file) :
        /\ proc[p].pc = "read"
        /\ LET domains == ParseConfig(file)
               before == Snapshot(file, secrets)
           IN  IF DigestConflict(Sha256(file), req.digest)
               THEN Return(p, req, "conflict", "", before, file, secrets)
               ELSE IF RemoveFoundNothing(domains, req.realm)
               THEN Return(p, req, "not found", "", before, file, secrets)
               ELSE Goto(p, "save", req, RemoveSection(domains, req.realm),
                         Waiting.config, before, "")
        /\ UNCHANGED <<file, secrets, committed>>
        /\ UNCHANGED <<loginVars, pureVars>>

\* LdapAuthenticator::check_connection answers, while the lock is held.
CheckConnection(p) ==
    \E ok \in BOOLEAN :
        /\ proc[p].pc = "check"
        /\ LET checked == IF ok THEN "ok" ELSE "failed" IN
           IF AfterCheck(ok) = "return"
           THEN Return(p, proc[p].req, "check failed", checked, proc[p].before, file,
                       secrets)
           ELSE Step(p, AfterCheck(ok), checked)
        /\ UNCHANGED <<file, secrets, committed>>
        /\ UNCHANGED <<loginVars, pureVars>>

\* store_ldap_bind_password, when a password came with the request.
StorePassword(p) ==
    \E ok \in BOOLEAN :
        /\ proc[p].pc = "store"
        /\ IF ~StoresPassword(proc[p].req.password)
           THEN /\ Step(p, "save", proc[p].checked)
                /\ UNCHANGED secrets
           ELSE IF ok
           THEN /\ secrets' = secrets \cup {proc[p].req.realm}
                /\ Step(p, "save", proc[p].checked)
           ELSE /\ Exit(p, "secret error", file, secrets)
                /\ UNCHANGED secrets
        /\ UNCHANGED <<file, committed>>
        /\ UNCHANGED <<loginVars, pureVars>>

\* replace_api_config: the file has the new content as a whole, in one step.
replace_api_config(old, new) == new

\* A save that leaves a file cut short of its last record.
save_config_cut_short(old, domains) ==
    LET raw == WriteConfig(domains) IN SubSeq(raw, 1, Len(raw) - 1)

\* domains::save_config: the content of the file after a successful save.
save_config(old, domains) == replace_api_config(old, WriteConfig(domains))

\* save_config replaces the file in one step, or fails and leaves it.
SaveConfig(p, domains, ok, next) ==
    LET content == save_config(file, domains) IN
    IF ok
    THEN /\ file' = content
         /\ committed' = Commit(p, proc[p].req, file, content)
         /\ IF next = "return" THEN Exit(p, "ok", content, secrets)
            ELSE Step(p, next, proc[p].checked)
    ELSE /\ Exit(p, "save error", file, secrets)
         /\ UNCHANGED <<file, committed>>

\* The end of create_ldap_realm: unset_default_realm, set_data, save_config.
CreateSave(p) ==
    \E ok \in BOOLEAN :
        /\ proc[p].pc = "save"
        /\ proc[p].req.op = "create"
        /\ SaveConfig(p, CreateDomains(proc[p].domains, proc[p].config), ok, "return")
        /\ UNCHANGED secrets
        /\ UNCHANGED <<loginVars, pureVars>>

\* The end of update_ldap_realm: set_data, save_config.
UpdateSave(p) ==
    \E ok \in BOOLEAN :
        /\ proc[p].pc = "save"
        /\ proc[p].req.op = "update"
        /\ SaveConfig(p, SetData(proc[p].domains, proc[p].req.realm, "ldap",
                                 proc[p].config), ok, "return")
        /\ UNCHANGED secrets
        /\ UNCHANGED <<loginVars, pureVars>>

\* save_config of delete_ldap_realm.
DeleteSave(p) ==
    \E ok \in BOOLEAN :
        /\ proc[p].pc = "save"
        /\ proc[p].req.op = "delete"
        /\ SaveConfig(p, proc[p].domains, ok, "cleanup")
        /\ UNCHANGED secrets
        /\ UNCHANGED <<loginVars, pureVars>>

\* A handler that returns the error of remove_ldap_bind_password.
CleanupResult_strict(removed) == IF removed THEN "ok" ELSE "secret error"

\* The result of delete_ldap_realm after save_config: an error of
\* remove_ldap_bind_password is logged, and Ok(()) is returned.
CleanupResult(removed) == "ok"

\* The end of delete_ldap_realm: the stored password is removed; a failure is
\* logged and the handler still returns Ok.
DeleteCleanup(p) ==
    \E removed \in BOOLEAN :
        /\ proc[p].pc = "cleanup"
        /\ secrets' = IF removed THEN secrets \ {proc[p].req.realm} ELSE secrets
        /\ Exit(p, CleanupResult(removed), file, secrets')
        /\ UNCHANGED <<file, committed>>
        /\ UNCHANGED <<loginVars, pureVars>>

\* ---------------------------------------------------------------- realm reads

\* A domains::config that takes the digest of an empty content.
domains_config_digest_of_nothing(content) ==
    [data |-> ParseConfig(content), digest |-> Sha256(<<>>)]

\* domains::config: the content of the file, or the empty content when there
\* is no file, its digest, and the data parsed from it.
domains_config(content) == [data |-> ParseConfig(content), digest |-> Sha256(content)]

\* SectionConfigData::convert_to_typed_array: the sections of the type, in the
\* order of the file.
RECURSIVE convert_to_typed_array(_, _, _)
convert_to_typed_array(sections, order, type) ==
    IF order = <<>> THEN <<>>
    ELSE (IF order[1] \in DOMAIN sections /\ sections[order[1]].type = type
          THEN <<sections[order[1]].data>> ELSE <<>>)
         \o convert_to_typed_array(sections, Tail(order), type)

Read(op, realm, ok, data, digest, content) ==
    [op |-> op, realm |-> realm, ok |-> ok, data |-> data, digest |-> digest,
     content |-> content]

NoRead == Read("", "", FALSE, <<>>, None, <<>>)

\* list_ldap_realms: takes no lock.
ListLdapRealms ==
    /\ LET c == domains_config(file) IN
       rd' = Read("list", "", TRUE,
                  convert_to_typed_array(c.data.sections, c.data.order, "ldap"),
                  Some(to_hex(c.digest)), file)
    /\ UNCHANGED <<loginVars, realmVars, upd, ovl, del>>

\* read_ldap_realm: takes no lock; a failed lookup returns before the digest
\* is handed out.
ReadLdapRealm ==
    \E realm \in RealmIds :
        /\ LET c == domains_config(file) IN
           rd' = IF LookupOk(c.data, "ldap", realm)
                 THEN Read("read", realm, TRUE, <<c.data.sections[realm].data>>,
                           Some(to_hex(c.digest)), file)
                 ELSE Read("read", realm, FALSE, <<>>, None, <<>>)
        /\ UNCHANGED <<loginVars, realmVars, upd, ovl, del>>

RealmNext ==
    \E p \in Procs :
        \/ LockConfig(p)
        \/ CreateRead(p)
        \/ UpdateRead(p)
        \/ DeleteRead(p)
        \/ CheckConnection(p)
        \/ StorePassword(p)
        \/ CreateSave(p)
        \/ UpdateSave(p)
        \/ DeleteSave(p)
        \/ DeleteCleanup(p)

\* ---------------------------------------------------------------- property update

\* Largest length of a delete list.
MaxDelete == 2

\* Comments, as sequences of characters.
OldComment == <<"o", "l", "d">>

NewComments == {<<"n", " ", "t">>, <<" ", "n", " ", "t", " ">>, <<" ">>, <<>>}

\* The stored records the update starts from.
StoredConfigs ==
    {[LdapRealm("ldap1", d) EXCEPT !.comment = c, !.server2 = s2] :
        d \in Defaults, c \in {None, Some(OldComment)}, s2 \in {None, Some("ldap-b")}}

DeletedProperties == {"Comment", "Server2", "Default"}

UpdateDeleteLists ==
    UNION {[1..n -> DeletedProperties] : n \in 0..MaxDelete}

Updaters ==
    {[NoUpdate EXCEPT !.comment = c, !.server2 = s2, !.default = d] :
        c \in {None} \cup {Some(x) : x \in NewComments},
        s2 \in {None, Some("ldap-c")},
        d \in {None, Some(TRUE), Some(FALSE)}}

UpdCall(config, delete, update, out) ==
    [config |-> config, delete |-> delete, update |-> update, out |-> out]

NoUpd == UpdCall(LdapRealm("", None), <<>>, NoUpdate, None)

UpdInit ==
    \E config \in StoredConfigs, delete \in UpdateDeleteLists, update \in Updaters :
        upd = UpdCall(config, delete, update, None)

\* update_ldap_realm builds the record it will save.
UpdateConfig ==
    /\ upd.out = None
    /\ upd' = [upd EXCEPT !.out = Some(UpdatedConfig(upd.config, upd.delete, upd.update))]
    /\ UNCHANGED <<loginVars, realmVars, ovl, rd, del>>

\* ---------------------------------------------------------------- section overlay

\* serde_json::Value: a string, or an object (a map from keys to values).
Str(x) == [kind |-> "string", str |-> x, map |-> <<>>]

Obj(m) == [kind |-> "object", str |-> "", map |-> m]

IsStr(v) == v.kind = "string"

IsObj(v) == v.kind = "object"

Keys(v) == DOMAIN v.map

\* Map::insert and Map::remove of serde_json.
MapInsert(m, k, x) == [j \in DOMAIN m \cup {k} |-> IF j = k THEN x ELSE m[j]]

MapRemove(m, k) == [j \in DOMAIN m \ {k} |-> m[j]]

\* The typed values: an enum of newtype variants, each around a struct of
\* string properties.  VariantFields gives the properties of each variant.
VariantNames == {"ldap", "openid"}

VariantFields(variant) == IF variant = "ldap" THEN {"server"} ELSE {"issuer"}

Typed(variant, fields) == [variant |-> variant, fields |-> fields]

PropertyValues == {"x", "y"}

TypedValues ==
    {Typed("ldap", [f \in {"server"} |-> x]) : x \in PropertyValues}
    \cup {Typed("openid", [f \in {"issuer"} |-> "x"])}

\* ApiSectionDataEntry::INTERNALLY_TAGGED
TagModes == {None, Some("type")}

Ok(x) == [ok |-> TRUE, val |-> x, err |-> ""]

Err(e) == [ok |-> FALSE, val |-> <<>>, err |-> e]

\* serde_json::to_value of a typed value: with an internal tag the object of
\* the properties with the tag added, otherwise the object with the variant
\* name as its one key.
ToValue(v, tag) ==
    LET props == Obj([f \in DOMAIN v.fields |-> Str(v.fields[f])]) IN
    IF IsSome(tag) THEN Obj(MapInsert(props.map, tag[1], Str(v.variant)))
    ELSE Obj([k \in {v.variant} |-> props])

\* Deserialize of the struct of a variant: its properties must be there and
\* be strings; other keys are ignored.
FromProps(variant, value) ==
    IF ~IsObj(value) THEN Err("invalid type")
    ELSE IF \E f \in VariantFields(variant) : f \notin Keys(value)
    THEN Err("missing field")
    ELSE IF \E f \in VariantFields(variant) : ~IsStr(value.map[f])
    THEN Err("invalid type")
    ELSE Ok(Typed(variant, [f \in VariantFields(variant) |-> value.map[f].str]))

\* serde_json::from_value::<T>.
FromValue(value, tag) ==
    IF ~IsObj(value) THEN Err("invalid type")
    ELSE IF IsSome(tag)
    THEN IF tag[1] \notin Keys(value) THEN Err("missing tag")
         ELSE IF ~IsStr(value.map[tag[1]]) THEN Err("invalid type")
         ELSE IF value.map[tag[1]].str \notin VariantNames THEN Err("unknown variant")
         ELSE FromProps(value.map[tag[1]].str, value)
    ELSE IF Cardinality(Keys(value)) # 1 THEN Err("expected one key")
    ELSE LET k == CHOOSE j \in Keys(value) : TRUE IN
         IF k \notin VariantNames THEN Err("unknown variant")
         ELSE FromProps(k, value.map[k])

\* A decoder that wraps the value under its type name in both tagging modes.
from_value_untagged(ty, value, tag) == FromValue(Obj([k \in {ty} |-> value]), tag)

\* ApiSectionDataEntry::from_value
from_value(ty, value, tag) ==
    IF IsSome(tag)
    THEN IF IsObj(value) THEN FromValue(Obj(MapInsert(value.map, tag[1], Str(ty))), tag)
         ELSE Err("cannot add type property non-object")
    ELSE FromValue(Obj([k \in {ty} |-> value]), tag)

Pair(ty, value) == [ty |-> ty, value |-> value]

\* fn to_pair(value, tag)
to_pair(value, tag) ==
    IF IsObj(value) /\ IsSome(tag)
    THEN IF tag[1] \notin Keys(value) THEN Err("tag missing in object")
         ELSE IF ~IsStr(value.map[tag[1]]) THEN Err("tag has invalid value (not a string)")
         ELSE Ok(Pair(value.map[tag[1]].str, Obj(MapRemove(value.map, tag[1]))))
    ELSE IF IsObj(value) /\ ~IsSome(tag) /\ Cardinality(Keys(value)) = 1
    THEN LET k == CHOOSE j \in Keys(value) : TRUE IN Ok(Pair(k, value.map[k]))
    ELSE Err("unexpected serialization method")

\* ApiSectionDataEntry::to_pair / into_pair
entry_to_pair(v, tag) == to_pair(ToValue(v, tag), tag)

\* SectionConfigData<T> and the raw SectionConfigData: the sections by id and
\* the list of ids.
Data(sections, order) == [sections |-> sections, order |-> order]

\* impl Default
DefaultData == Data(<<>>, <<>>)

\* A conversion that leaves out the records that do not decode.
RECURSIVE try_fold_skip(_, _, _, _)
try_fold_skip(ids, sections, acc, tag) ==
    IF ids = <<>> THEN Ok(acc)
    ELSE LET id == ids[1]
             r == from_value(sections[id].ty, sections[id].value, tag)
         IN  try_fold_skip(Tail(ids), sections,
                           IF r.ok THEN MapInsert(acc, id, r.val) ELSE acc, tag)

\* The try_fold of TryFrom<RawSectionConfigData>: the first record that does
\* not decode ends the fold with its error.
RECURSIVE try_fold_from_value(_, _, _, _)
try_fold_from_value(ids, sections, acc, tag) ==
    IF ids = <<>> THEN Ok(acc)
    ELSE LET id == ids[1]
             r == from_value(sections[id].ty, sections[id].value, tag)
         IN  IF ~r.ok THEN Err(r.err)
             ELSE try_fold_from_value(Tail(ids), sections, MapInsert(acc, id, r.val), tag)

\* TryFrom<RawSectionConfigData> for SectionConfigData<T>
try_from_raw(raw, tag) ==
    LET r == try_fold_from_value(SeqOfSet(DOMAIN raw.sections), raw.sections, <<>>, tag)
    IN  IF r.ok THEN Ok(Data(r.val, raw.order)) ELSE r

\* The try_fold of TryFrom<&SectionConfigData<T>>.
RECURSIVE try_fold_to_pair(_, _, _, _)
try_fold_to_pair(ids, sections, acc, tag) ==
    IF ids = <<>> THEN Ok(acc)
    ELSE LET id == ids[1]
             r == entry_to_pair(sections[id], tag)
         IN  IF ~r.ok THEN Err(r.err)
             ELSE try_fold_to_pair(Tail(ids), sections, MapInsert(acc, id, r.val), tag)

\* TryFrom<&SectionConfigData<T>> for RawSectionConfigData
try_from_typed(data, tag) ==
    LET r == try_fold_to_pair(SeqOfSet(DOMAIN data.sections), data.sections, <<>>, tag)
    IN  IF r.ok THEN Ok(Data(r.val, data.order)) ELSE r

\* From<HashMap<String, T>>
from_hashmap(sections) == Data(sections, <<>>)

\* FromIterator<(String, T)>
RECURSIVE from_iter_loop(_, _, _)
from_iter_loop(iter, sections, order) ==
    IF iter = <<>> THEN Data(sections, order)
    ELSE from_iter_loop(Tail(iter), MapInsert(sections, iter[1][1], iter[1][2]),
                        Append(order, iter[1][1]))

from_iter(iter) == from_iter_loop(iter, <<>>, <<>>)

\* An iteration that ends at the first id the map does not have.
RECURSIVE Iter_stop_at_missing(_, _)
Iter_stop_at_missing(sections, order) ==
    IF order = <<>> \/ order[1] \notin DOMAIN sections THEN <<>>
    ELSE << <<order[1], sections[order[1]]>> >>
         \o Iter_stop_at_missing(sections, Tail(order))

\* Iter::next until None: ids the map does not have are skipped.
RECURSIVE Iter(_, _)
Iter(sections, order) ==
    IF order = <<>> THEN <<>>
    ELSE (IF order[1] \in DOMAIN sections THEN << <<order[1], sections[order[1]]>> >>
          ELSE <<>>)
         \o Iter(sections, Tail(order))

\* IntoIter::next until None: a yielded record is removed from the map.
RECURSIVE IntoIter(_, _)
IntoIter(sections, order) ==
    IF order = <<>> THEN <<>>
    ELSE IF order[1] \in DOMAIN sections
    THEN << <<order[1], sections[order[1]]>> >>
         \o IntoIter(MapRemove(sections, order[1]), Tail(order))
    ELSE IntoIter(sections, Tail(order))

\* ---------------------------------------------------------------- overlay inputs

\* Largest length of a sequence handed to FromIterator.
MaxItems == 2

SectionIds == {"a", "b"}

\* The (type, value) pairs of raw sections: those of the typed values, a
\* type no variant has, an object without the property, a value that is no
\* object.
RawPairs ==
    {Pair("ldap", Obj([f \in {"server"} |-> Str("x")])),
     Pair("openid", Obj([f \in {"issuer"} |-> Str("x")])),
     Pair("pam", Obj([f \in {"server"} |-> Str("x")])),
     Pair("ldap", Obj([f \in {"issuer"} |-> Str("x")])),
     Pair("ldap", Str("x"))}

Maps(ids, values) == UNION {[S -> values] : S \in SUBSET ids}

Orders(S) == {q \in [1..Cardinality(S) -> S] : SeqRange(q) = S}

\* Raw data as SectionConfig::parse gives it: every id once in the order list.
Raws ==
    UNION {{Data(m, q) : q \in Orders(DOMAIN m)} : m \in Maps(SectionIds, RawPairs)}

\* The sequences of (id, value) handed to FromIterator.
ItemSeqs == UNION {[1..n -> SectionIds \X TypedValues] : n \in 0..MaxItems}

\* ---------------------------------------------------------------- overlay state

\* The tagging mode of T, the SectionConfigData value at hand, and the last
\* operation with its argument, whether it succeeded, and what it returned.
Overlay(mode, data, op, arg, ok, out) ==
    [mode |-> mode, data |-> data, op |-> op, arg |-> arg, ok |-> ok, out |-> out]

NoOverlay == Overlay(None, DefaultData, "init", <<>>, TRUE, <<>>)

OverlayInit == \E mode \in TagModes : ovl = Overlay(mode, DefaultData, "init", <<>>, TRUE, <<>>)

\* SectionConfigData::default()
OvDefault ==
    /\ ovl' = Overlay(ovl.mode, DefaultData, "default", <<>>, TRUE, <<>>)
    /\ UNCHANGED <<loginVars, realmVars, upd, rd, del>>

\* SectionConfigData::try_from(raw): on an error no value is constructed, and
\* the value at hand is the empty one again.
OvTryFromRaw ==
    \E raw \in Raws :
        /\ LET r == try_from_raw(raw, ovl.mode) IN
           ovl' = Overlay(ovl.mode, IF r.ok THEN r.val ELSE DefaultData, "try_from", raw,
                          r.ok, IF r.ok THEN Some(r.val) ELSE None)
        /\ UNCHANGED <<loginVars, realmVars, upd, rd, del>>

\* SectionConfigData::from(hashmap)
OvFromHashMap ==
    \E m \in Maps(SectionIds, TypedValues) :
        /\ ovl' = Overlay(ovl.mode, from_hashmap(m), "from", <<>>, TRUE, <<>>)
        /\ UNCHANGED <<loginVars, realmVars, upd, rd, del>>

\* iter.collect::<SectionConfigData<T>>()
OvFromIter ==
    \E iter \in ItemSeqs :
        /\ ovl' = Overlay(ovl.mode, from_iter(iter), "from_iter", iter, TRUE, <<>>)
        /\ UNCHANGED <<loginVars, realmVars, upd, rd, del>>

\* data.insert(id, v), through DerefMut
OvInsert ==
    \E id \in SectionIds, v \in TypedValues :
        /\ ovl' = Overlay(ovl.mode,
                          Data(MapInsert(ovl.data.sections, id, v), ovl.data.order),
                          "insert", <<>>, TRUE, <<>>)
        /\ UNCHANGED <<loginVars, realmVars, upd, rd, del>>

\* data.remove(id), through DerefMut
OvRemove ==
    \E id \in SectionIds :
        /\ ovl' = Overlay(ovl.mode,
                          Data(MapRemove(ovl.data.sections, id), ovl.data.order),
                          "remove", <<>>, TRUE, <<>>)
        /\ UNCHANGED <<loginVars, realmVars, upd, rd, del>>

\* (&data).into_iter().collect()
OvIter ==
    /\ ovl' = Overlay(ovl.mode, ovl.data, "iter", <<>>, TRUE,
                      Iter(ovl.data.sections, ovl.data.order))
    /\ UNCHANGED <<loginVars, realmVars, upd, rd, del>>

\* data.clone().into_iter().collect()
OvIntoIter ==
    /\ ovl' = Overlay(ovl.mode, ovl.data, "into_iter", <<>>, TRUE,
                      IntoIter(ovl.data.sections, ovl.data.order))
    /\ UNCHANGED <<loginVars, realmVars, upd, rd, del>>

\* The value converted to raw data and back.
OvRoundTrip ==
    /\ LET raw == try_from_typed(ovl.data, ovl.mode)
           back == IF raw.ok THEN try_from_raw(raw.val, ovl.mode) ELSE raw
       IN  ovl' = Overlay(ovl.mode, ovl.data, "round_trip", <<>>, back.ok,
                          IF back.ok THEN Some(back.val) ELSE None)
    /\ UNCHANGED <<loginVars, realmVars, upd, rd, del>>

\* A typed value encoded to its (type, value) pair and decoded from it.
OvPair ==
    \E v \in TypedValues :
        /\ LET pair == entry_to_pair(v, ovl.mode)
               back == IF pair.ok THEN from_value(pair.val.ty, pair.val.value, ovl.mode)
                       ELSE pair
           IN  ovl' = Overlay(ovl.mode, ovl.data, "pair", v, back.ok,
                              IF back.ok THEN Some(back.val) ELSE None)
        /\ UNCHANGED <<loginVars, realmVars, upd, rd, del>>

OverlayNext ==
    \/ OvDefault
    \/ OvTryFromRaw
    \/ OvFromHashMap
    \/ OvFromIter
    \/ OvInsert
    \/ OvRemove
    \/ OvIter
    \/ OvIntoIter
    \/ OvRoundTrip
    \/ OvPair

\* ---------------------------------------------------------------- realm targets

\* The records a stored configuration is made of: the OpenID realm and two
\* LDAP realms.
StoredRecords ==
    {Section("openid1", "openid", OpenIdRealm("openid1", Some(TRUE))),
     Section("ldap1", "ldap", LdapRealm("ldap1", None)),
     Section("ldap2", "ldap", LdapRealm("ldap2", None))}

\* The stored configurations: some of the records, in any order.
StoredContents ==
    {q \in UNION {[1..n -> StoredRecords] : n \in 0..Cardinality(StoredRecords)} :
        \A i, j \in 1..Len(q) : q[i] = q[j] => i = j}

\* delete_ldap_realm from config() to save_config: the section is taken out
\* of the map, whatever its type; an id the map does not have is an error.
DeletedDomains(domains, realm) ==
    IF RemoveFoundNothing(domains, realm) THEN Err("not found")
    ELSE Ok(RemoveSection(domains, realm))

\* update_ldap_realm from config() to save_config, for an update that names
\* at most the default flag: the lookup asks for a section of type ldap.
UpdatedDomains(domains, realm, default) ==
    IF ~LookupOk(domains, "ldap", realm) THEN Err(LookupError(domains, "ldap", realm))
    ELSE LET update == [NoUpdate EXCEPT !.default = default] IN
         Ok(SetData(UpdateDomains(domains, update), realm, "ldap",
                    UpdatedConfig(domains.sections[realm].data, <<>>, update)))

Target(op, realm, default, content, done, ok, domains, after) ==
    [op |-> op, realm |-> realm, default |-> default, content |-> content,
     done |-> done, ok |-> ok, domains |-> domains, after |-> after]

NoTarget == Target("", "", None, <<>>, FALSE, FALSE, EmptyData, <<>>)

TargetInit ==
    \E op \in {"update", "delete"}, realm \in RealmIds, content \in StoredContents,
       default \in Defaults :
        /\ op = "delete" => default = None
        /\ del = Target(op, realm, default, content, FALSE, FALSE, EmptyData, <<>>)

\* The call, with a connection check and a save that succeed: the content of
\* the file afterwards is the saved configuration, or the one before when
\* the call returned an error.
ApplyToTarget ==
    /\ ~del.done
    /\ LET domains == ParseConfig(del.content)
           r == IF del.op = "delete" THEN DeletedDomains(domains, del.realm)
                ELSE UpdatedDomains(domains, del.realm, del.default)
       IN  del' = [del EXCEPT !.done = TRUE, !.ok = r.ok,
                              !.domains = IF r.ok THEN r.val ELSE domains,
                              !.after = IF r.ok THEN save_config(del.content, r.val)
                                        ELSE del.content]
    /\ UNCHANGED <<loginVars, realmVars, upd, ovl, rd>>

\* ---------------------------------------------------------------- specifications

\* The variables outside a specification are at rest.
PureRest == upd = NoUpd /\ ovl = NoOverlay /\ rd = NoRead /\ del = NoTarget

\* The login protocol; the realm store is at rest.
LoginStart == Init /\ RealmInit /\ PureRest

Spec == LoginStart /\ [][Next]_vars

\* The realm store; the login protocol is at rest.
RealmStart == LoginIdle /\ RealmInit /\ PureRest

SpecRealm == RealmStart /\ [][RealmNext]_vars

\* The steps of a handler once it holds the lock.
Proceed(p) ==
    \/ CreateRead(p)
    \/ UpdateRead(p)
    \/ DeleteRead(p)
    \/ CheckConnection(p)
    \/ StorePassword(p)
    \/ CreateSave(p)
    \/ UpdateSave(p)
    \/ DeleteSave(p)
    \/ DeleteCleanup(p)

\* The realm store under fair scheduling: a handler that holds the lock keeps
\* running (its connection check answers), and a handler waiting for the
\* lock is not passed over forever.
SpecRealmFair ==
    /\ SpecRealm
    /\ WF_vars(\E p \in Procs : Proceed(p))
    /\ \A p \in Procs : SF_vars(LockConfig(p))

\* The property update of update_ldap_realm, applied to drawn inputs.
UpdateStart ==
    LoginIdle /\ RealmInit /\ UpdInit /\ ovl = NoOverlay /\ rd = NoRead /\ del = NoTarget

SpecUpdate == UpdateStart /\ [][UpdateConfig]_vars

\* The section overlay.
OverlayStart ==
    LoginIdle /\ RealmInit /\ upd = NoUpd /\ OverlayInit /\ rd = NoRead /\ del = NoTarget

SpecOverlay == OverlayStart /\ [][OverlayNext]_vars

\* The realm store with its readers: the reads take no lock and come between
\* any two steps of a handler; the handlers are serialised by the lock, and one
\* is followed here.
Writer == 1

ReadNext ==
    \/ LockConfig(Writer)
    \/ Proceed(Writer)
    \/ ListLdapRealms
    \/ ReadLdapRealm

SpecRead == RealmStart /\ [][ReadNext]_vars

\* update_ldap_realm and delete_ldap_realm on every stored configuration.
TargetStart ==
    LoginIdle /\ RealmInit /\ upd = NoUpd /\ ovl = NoOverlay /\ rd = NoRead /\ TargetInit

SpecTarget == TargetStart /\ [][ApplyToTarget]_vars

\* ---------------------------------------------------------------- realm properties

InCritical(p) == proc[p].pc # "lock"

RealmIdsOf(content) == {content[i].id : i \in 1..Len(content)}

DefaultsOf(content) == {i \in 1..Len(content) : content[i].data.default = Some(TRUE)}

Returned == rlast.p # 0

\* C13: a handler past lock_config holds the lock, so at most one handler is
\* between its read and its return; the lock is given up only by returning;
\* and while a handler waits for its connection check the file stays as it
\* is and no other handler moves.
C13_State == \A p \in Procs : InCritical(p) => lock = p

C13_Step ==
    /\ file' # file => lock \in Procs
    /\ \A p \in Procs :
           /\ (lock = p /\ lock' # p) => proc'[p].pc = "lock"
           /\ (proc[p].pc = "check" /\ proc'[p].pc = "check") =>
                  (file' = file /\ \A q \in Procs : InCritical(q)' => q = p)
           /\ (file' # file /\ lock # p) => ~InCritical(p)

C13_SingleWriter == [](C13_State) /\ [][C13_Step]_vars

\* A connection check is pending while another invocation waits for the lock
\* the first one has held since before its read.
C13_Witness ==
    /\ proc[1].pc = "check"
    /\ lock = 1
    /\ proc[2].pc = "lock"
    /\ proc[1].before.file = file

\* C14: an update or delete that passes a digest other than the digest of the
\* file as read under the lock returns the conflict error, whether or not the
\* realm exists, and leaves the file and the stored passwords as they were.
C14_StaleDigestConflict ==
    (/\ Returned
     /\ rlast.req.op \in {"update", "delete"}
     /\ IsSome(rlast.req.digest)
     /\ rlast.req.digest # Some(Sha256(rlast.file_before)))
    => /\ rlast.result = "conflict"
       /\ rlast.file_after = rlast.file_before
       /\ rlast.secrets_after = rlast.secrets_before

\* A stale digest on a realm that is not in the file: the conflict is reported,
\* not the missing realm.
C14_Witness ==
    /\ Returned
    /\ rlast.result = "conflict"
    /\ rlast.req.realm \notin RealmIdsOf(rlast.file_before)
    /\ rlast.file_after = rlast.file_before

\* The digest both callers read: that of the initial content.
D0 == Some(Sha256(InitialContent))

\* C15: when the latest replacement of the file was made by one caller who
\* passed D0 and changed the content, an update or delete of another caller
\* passing D0 returns the conflict error and leaves the file as it found it.
C15_LostUpdateDetected ==
    (/\ Returned
     /\ committed \notin {NoCommit, rlast.p}
     /\ rlast.req.op \in {"update", "delete"}
     /\ rlast.req.digest = D0)
    => /\ rlast.result = "conflict"
       /\ rlast.file_after = rlast.file_before

C15_Witness ==
    /\ Returned
    /\ committed \notin {NoCommit, rlast.p}
    /\ rlast.req.digest = D0
    /\ rlast.result = "conflict"
    /\ rlast.file_before # InitialContent
    /\ file = rlast.file_before

\* C16: at most one realm of the file has default = true.
C16_AtMostOneDefault == Cardinality(DefaultsOf(file)) <= 1

\* A handler made a realm the default while another realm was the default.
C16_Witness ==
    /\ Returned
    /\ rlast.result = "ok"
    /\ rlast.req.default = Some(TRUE)
    /\ \E i \in DefaultsOf(rlast.file_before) :
           rlast.file_before[i].id # rlast.req.realm
    /\ file = rlast.file_after

\* C17: after a create or update that set default = true on a realm and
\* returned Ok, that realm has default = Some(true) in the file and every
\* other realm has no default property.
C17_DefaultMoves ==
    (/\ Returned
     /\ rlast.result = "ok"
     /\ rlast.req.op \in {"create", "update"}
     /\ rlast.req.default = Some(TRUE))
    => /\ rlast.req.realm \in RealmIdsOf(rlast.file_after)
       /\ \A i \in 1..Len(rlast.file_after) :
              rlast.file_after[i].data.default =
                  IF rlast.file_after[i].id = rlast.req.realm THEN Some(TRUE) ELSE None

\* ldap1 is the default and ldap2 is created with default = true.
C17_Witness ==
    /\ Returned
    /\ rlast.result = "ok"
    /\ rlast.req.op = "create"
    /\ rlast.req.realm = "ldap2"
    /\ rlast.req.default = Some(TRUE)
    /\ \E i \in DefaultsOf(rlast.file_before) : rlast.file_before[i].id = "ldap1"
    /\ \E i \in 1..Len(rlast.file_after) :
           rlast.file_after[i].id = "ldap1" /\ rlast.file_after[i].data.default = None
    /\ \E i \in DefaultsOf(rlast.file_after) : rlast.file_after[i].id = "ldap2"

Unchanged == rlast.file_after = rlast.file_before

DigestPasses == rlast.req.digest \in {None, Some(Sha256(rlast.file_before))}

Missing == rlast.req.realm \notin RealmIdsOf(rlast.file_before)

\* C18 as stated: a delete or update of a realm id that is not in the file
\* returns the not-found error, a create of an id that is in the file returns
\* the already-exists error, and the file stays as it was.
C18_ExistenceErrors ==
    Returned =>
        /\ (rlast.req.op \in {"update", "delete"} /\ Missing) =>
               (rlast.result \in {"not found", "no such realm"} /\ Unchanged)
        /\ (rlast.req.op = "create" /\ ~Missing) =>
               (rlast.result = "already exists" /\ Unchanged)

\* C18, amended: when the digest check passes, a delete of a realm id that is
\* not in the file returns the not-found error and an update of one returns
\* the lookup's no-such-realm error; a create of an id that is in the file,
\* under any type, returns the already-exists error; the file and the stored
\* passwords stay as they were.
C18_ExistenceErrorsAfterDigest ==
    Returned =>
        /\ (rlast.req.op = "delete" /\ Missing /\ DigestPasses) =>
               (rlast.result = "not found" /\ Unchanged
                /\ rlast.secrets_after = rlast.secrets_before)
        /\ (rlast.req.op = "update" /\ Missing /\ DigestPasses) =>
               (rlast.result = "no such realm" /\ Unchanged
                /\ rlast.secrets_after = rlast.secrets_before)
        /\ (rlast.req.op = "create" /\ ~Missing) =>
               (rlast.result = "already exists" /\ Unchanged
                /\ rlast.secrets_after = rlast.secrets_before)

\* A delete with the digest of the file as it is, of a realm the file does
\* not have.
C18_Witness ==
    /\ Returned
    /\ rlast.req.op = "delete"
    /\ IsSome(rlast.req.digest)
    /\ DigestPasses
    /\ Missing
    /\ rlast.result = "not found"
    /\ file = rlast.file_before

\* C19: a handler whose connection check failed returns the error of the
\* check and the file is as it was before the handler; no handler goes on
\* after a failed check.
C19_FailedCheckNoWrite ==
    /\ \A p \in Procs : proc[p].checked # "failed"
    /\ (Returned /\ rlast.checked = "failed") =>
           (rlast.result = "check failed" /\ Unchanged /\ file = rlast.file_before)

\* The check failed for a request with default = true while another realm
\* is the default: that realm still is.
C19_Witness ==
    /\ Returned
    /\ rlast.checked = "failed"
    /\ rlast.req.default = Some(TRUE)
    /\ \E i \in DefaultsOf(file) : file[i].id # rlast.req.realm
    /\ rlast.req.realm \notin {file[i].id : i \in DefaultsOf(file)}

\* C20: a realm gets a stored password only in the step of a create or update
\* that came with a password, after its connection check succeeded and while
\* the file is still as the handler read it, and the handler goes on to save
\* the file; a handler whose check did not succeed, or that came without a
\* password, returns with no password added.
C20_Step ==
    \A r \in RealmIds :
        (r \in secrets' /\ r \notin secrets) =>
            \E p \in Procs :
                /\ lock = p
                /\ proc[p].pc = "store"
                /\ proc[p].req.op \in {"create", "update"}
                /\ proc[p].req.realm = r
                /\ IsSome(proc[p].req.password)
                /\ proc[p].checked = "ok"
                /\ file = proc[p].before.file
                /\ file' = file
                /\ proc'[p].pc = "save"

C20_State ==
    (Returned /\ (rlast.checked # "ok" \/ ~IsSome(rlast.req.password))) =>
        rlast.secrets_after \subseteq rlast.secrets_before

C20_PasswordAfterCheck == [](C20_State) /\ [][C20_Step]_vars

\* The password is stored, the check has succeeded, the file is not yet
\* replaced.
C20_Witness ==
    \E p \in Procs :
        /\ proc[p].pc = "save"
        /\ proc[p].checked = "ok"
        /\ IsSome(proc[p].req.password)
        /\ proc[p].req.realm \in secrets
        /\ proc[p].req.realm \notin proc[p].before.secrets
        /\ file = proc[p].before.file

\* C21: a handler that has returned, with whatever result, has left the lock
\* free; every step in which a handler returns frees the lock; and a handler
\* waiting for the lock eventually holds it.
C21_State == Returned => (lock = 0 /\ ~InCritical(rlast.p))

C21_Step ==
    \A p \in Procs : (InCritical(p) /\ ~InCritical(p)') => (lock = p /\ lock' = 0)

C21_Acquires == \A p \in Procs : (proc[p].pc = "lock") ~> (lock = p)

C21_LockReleased == [](C21_State) /\ [][C21_Step]_vars /\ C21_Acquires

\* A handler returned the error of save_config and the lock is free.
C21_Witness ==
    /\ Returned
    /\ rlast.result = "save error"
    /\ lock = 0
    /\ \A p \in Procs : proc[p].pc = "lock"

\* ---------------------------------------------------------------- update properties

Updated == IsSome(upd.out)

InDelete(prop) == prop \in SeqRange(upd.delete)

PropertyOf(r, prop) ==
    CASE prop = "Comment" -> r.comment
      [] prop = "Server2" -> r.server2
      [] prop = "Default" -> r.default

Supplied(prop) == PropertyOf(upd.update, prop)

Final(prop) == PropertyOf(upd.out[1], prop)

InBoth(prop) == InDelete(prop) /\ IsSome(Supplied(prop))

\* What a supplied value is stored as: a comment is trimmed and an empty one
\* is absent; only default = true is stored.
StoredAs(prop) ==
    CASE prop = "Comment" ->
             IF ~IsSome(Supplied(prop)) \/ Trim(Supplied(prop)[1]) = <<>> THEN None
             ELSE Some(Trim(Supplied(prop)[1]))
      [] prop = "Server2" -> Supplied(prop)
      [] prop = "Default" -> IF Supplied(prop) = Some(TRUE) THEN Some(TRUE) ELSE None

\* C22 as stated: a property named in the delete list and supplied by the
\* payload ends with the supplied value.
C22_SuppliedValueWins ==
    Updated => \A prop \in DeletedProperties : InBoth(prop) => Final(prop) = Supplied(prop)

\* C22, amended: a property named in the delete list and supplied by the
\* payload ends with the value the payload is stored as (the comment trimmed,
\* an empty comment absent, a default other than true absent); the delete
\* list does not clear it.
C22_SuppliedValueStored ==
    Updated => \A prop \in DeletedProperties : InBoth(prop) => Final(prop) = StoredAs(prop)

\* delete: [Comment] with comment: "n t" ends with comment = Some("n t").
C22_Witness ==
    /\ Updated
    /\ upd.delete = <<"Comment">>
    /\ upd.config.comment = Some(OldComment)
    /\ upd.update.comment = Some(<<"n", " ", "t">>)
    /\ upd.out[1].comment = Some(<<"n", " ", "t">>)

\* C23 as stated: a property named in the delete list and supplied by the
\* payload ends up absent.
C23_BothMeansCleared ==
    Updated => \A prop \in DeletedProperties : InBoth(prop) => Final(prop) = None

\* C23, amended: a property named in the delete list ends up absent exactly
\* when the payload supplies nothing for it or supplies a value that is stored
\* as absent; so one named in the delete list only is cleared, and one that
\* is also supplied is not.
C23_ClearedUnlessSupplied ==
    Updated =>
        \A prop \in DeletedProperties :
            InDelete(prop) => (Final(prop) = None <=> StoredAs(prop) = None)

\* Server2 is in the delete list and in the payload, and is kept as supplied.
C23_Witness ==
    /\ Updated
    /\ InBoth("Server2")
    /\ upd.config.server2 = Some("ldap-b")
    /\ Final("Server2") = Some("ldap-c")

\* ---------------------------------------------------------------- section overlay properties

OvDid(op) == ovl.op = op

C25_OrderMatchesSections == SeqRange(ovl.data.order) = DOMAIN ovl.data.sections

\* The ids of a sequence of (id, record) pairs.
IdsOf(items) == [i \in 1..Len(items) |-> items[i][1]]

\* The ids of a sequence, each at the place where it comes first.
RECURSIVE FirstSeen(_, _)
FirstSeen(ids, seen) ==
    IF ids = <<>> THEN <<>>
    ELSE IF ids[1] \in seen THEN FirstSeen(Tail(ids), seen)
    ELSE <<ids[1]>> \o FirstSeen(Tail(ids), seen \cup {ids[1]})

\* C26: iterating a SectionConfigData yields every stored record, in the order
\* in which the ids were first parsed or inserted, and the conversions between
\* raw and typed data keep the order list.
C26_IterationInInsertionOrder ==
    /\ OvDid("iter") =>
           \A id \in DOMAIN ovl.data.sections :
               \E i \in 1..Len(ovl.out) : ovl.out[i] = <<id, ovl.data.sections[id]>>
    /\ OvDid("from_iter") =>
           IdsOf(Iter(ovl.data.sections, ovl.data.order)) = FirstSeen(IdsOf(ovl.arg), {})
    /\ (OvDid("try_from") /\ ovl.ok) =>
           IdsOf(Iter(ovl.data.sections, ovl.data.order)) = ovl.arg.order
    /\ (OvDid("round_trip") /\ ovl.ok) => ovl.out[1].order = ovl.data.order

NoRepeat(ids) == \A i, j \in 1..Len(ids) : ids[i] = ids[j] => i = j

\* C27: Iter and IntoIter yield each id at most once, and both yield the same
\* sequence of ids for the same data.
C27_IteratorsAgree ==
    /\ OvDid("iter") =>
           /\ NoRepeat(IdsOf(ovl.out))
           /\ IdsOf(ovl.out) = IdsOf(IntoIter(ovl.data.sections, ovl.data.order))
    /\ OvDid("into_iter") =>
           /\ NoRepeat(IdsOf(ovl.out))
           /\ IdsOf(ovl.out) = IdsOf(Iter(ovl.data.sections, ovl.data.order))

\* A raw record that is a value of a variant of T: its type names a variant
\* and its value is an object with the properties of that variant.
Decodable(pair) ==
    /\ pair.ty \in VariantNames
    /\ IsObj(pair.value)
    /\ VariantFields(pair.ty) \subseteq Keys(pair.value)

\* C28: the conversion of raw data to typed data fails as a whole when one
\* record does not decode, and returns no data then; when every record decodes
\* it returns all of them.
C28_AllOrNothing ==
    OvDid("try_from") =>
        IF \E id \in DOMAIN ovl.arg.sections : ~Decodable(ovl.arg.sections[id])
        THEN ~ovl.ok /\ ovl.out = None
        ELSE /\ ovl.ok
             /\ IsSome(ovl.out)
             /\ DOMAIN ovl.out[1].sections = DOMAIN ovl.arg.sections

\* Raw data of one record that decodes and one of an unknown type was refused.
C28_Witness ==
    /\ OvDid("try_from")
    /\ DOMAIN ovl.arg.sections = {"a", "b"}
    /\ Decodable(ovl.arg.sections["a"])
    /\ ovl.arg.sections["b"].ty = "pam"
    /\ ~ovl.ok
    /\ ovl.out = None

\* ---------------------------------------------------------------- delete cleanup properties

\* C29: delete_ldap_realm reaches the removal of the stored password only with
\* the record removed and the configuration saved, returns success from there
\* whether or not the password was removed, and a delete that did not get that
\* far leaves the stored passwords alone.
C29_State ==
    /\ \A p \in Procs :
           proc[p].pc = "cleanup" =>
               /\ proc[p].req.op = "delete"
               /\ file = WriteConfig(proc[p].domains)
               /\ proc[p].req.realm \notin RealmIdsOf(file)
               /\ proc[p].req.realm \in RealmIdsOf(proc[p].before.file)
    /\ (Returned /\ rlast.req.op = "delete" /\ rlast.result # "ok") =>
           rlast.secrets_after = rlast.secrets_before

C29_Step ==
    \A p \in Procs :
        /\ (proc[p].pc = "cleanup" /\ proc[p]' # proc[p]) =>
               (rlast'.p = p /\ rlast'.result = "ok")
        /\ (lock = p /\ proc[p].req.op = "delete" /\ secrets' # secrets) =>
               proc[p].pc = "cleanup"

C29_CleanupBestEffort == [](C29_State) /\ [][C29_Step]_vars

\* A delete returned success with the record gone from the file and the
\* password of the realm still stored.
C29_Witness ==
    /\ Returned
    /\ rlast.req.op = "delete"
    /\ rlast.result = "ok"
    /\ rlast.req.realm \notin RealmIdsOf(rlast.file_after)
    /\ rlast.req.realm \in rlast.secrets_before
    /\ rlast.req.realm \in rlast.secrets_after

\* ---------------------------------------------------------------- read properties

\* The data a successful read of the content returns.
DataRead(op, realm, content) ==
    IF op = "list"
    THEN SelectSeq([i \in 1..Len(content) |-> content[i]],
                   LAMBDA s : s.type = "ldap")
    ELSE SelectSeq([i \in 1..Len(content) |-> content[i]],
                   LAMBDA s : s.type = "ldap" /\ s.id = realm)

\* The digest the caller passes when it sends back what the read returned.
Passed == Some(from_hex(rd.digest[1]))

\* C30: a read that returns data returns the digest of the content the data
\* was parsed from, and an update or delete that passes this digest passes
\* the digest check exactly when the file it finds under the lock is that
\* content.
C30_ReadDigest ==
    /\ rd.ok =>
           /\ rd.digest = Some(to_hex(Sha256(rd.content)))
           /\ rd.data = [i \in 1..Len(DataRead(rd.op, rd.realm, rd.content)) |->
                            DataRead(rd.op, rd.realm, rd.content)[i].data]
    /\ (Returned /\ rlast.req.op \in {"update", "delete"} /\ rd.ok
        /\ rlast.req.digest = Passed) =>
           ((rlast.result # "conflict") <=> (rlast.file_before = rd.content))

\* An update passed the digest of a read of a content that is neither the
\* initial one nor the one it found, and returned the conflict error.
C30_Witness ==
    /\ Returned
    /\ rlast.req.op = "update"
    /\ rd.ok
    /\ rd.op = "read"
    /\ rlast.req.digest = Passed
    /\ rd.content # InitialContent
    /\ rd.content # rlast.file_before
    /\ rlast.result = "conflict"

\* ---------------------------------------------------------------- iteration properties

\* The ids of the order list that the map has, in the order of the list.
Listed == SelectIn(ovl.data.order, DOMAIN ovl.data.sections)

\* C31: both iterators end after at most as many records as the order list is
\* long; ids of the order list that the map does not have are skipped and the
\* others are yielded in the order of the list, with their records (the owning
\* iterator has taken a repeated id out of the map by its second place); ids
\* of the map that the order list does not name are not yielded.
C31_IterationSkipsMissing ==
    (OvDid("iter") \/ OvDid("into_iter")) =>
        /\ Len(ovl.out) <= Len(ovl.data.order)
        /\ IdsOf(ovl.out) = IF OvDid("iter") THEN Listed ELSE FirstSeen(Listed, {})
        /\ \A i \in 1..Len(ovl.out) :
               /\ ovl.out[i][1] \in DOMAIN ovl.data.sections
               /\ ovl.out[i][2] = ovl.data.sections[ovl.out[i][1]]
        /\ SeqRange(IdsOf(ovl.out)) \subseteq SeqRange(ovl.data.order)

\* The order list names a, which the map no longer has, before b: the
\* borrowing iterator yielded b alone.
C31_Witness ==
    /\ OvDid("iter")
    /\ ovl.data.order = <<"a", "b">>
    /\ DOMAIN ovl.data.sections = {"b"}
    /\ IdsOf(ovl.out) = <<"b">>

\* ---------------------------------------------------------------- digest comparison properties

\* C32: a create, and an update or delete that passes no digest, never return
\* the conflict error; a delete without digest of a realm the file has fails
\* only when the save fails, and an update without digest of an ldap realm
\* the file has gets as far as its connection check or the removal of the
\* stored password.
C32_NoDigestNoComparison ==
    Returned =>
        /\ (rlast.req.op = "create" \/ rlast.req.digest = None) =>
               rlast.result # "conflict"
        /\ (rlast.req.op = "delete" /\ rlast.req.digest = None /\ ~Missing) =>
               rlast.result \in {"ok", "save error"}
        /\ (/\ rlast.req.op = "update"
            /\ rlast.req.digest = None
            /\ LookupOk(ParseConfig(rlast.file_before), "ldap", rlast.req.realm)) =>
               rlast.result \in {"ok", "save error", "secret error", "check failed"}

\* An update without digest is at its connection check while the latest
\* replacement of the file is the changing one of another caller.
C32_Witness ==
    \E p \in Procs :
        /\ proc[p].pc = "check"
        /\ proc[p].req.op = "update"
        /\ proc[p].req.digest = None
        /\ committed \notin {NoCommit, p}
        /\ file # InitialContent

\* ---------------------------------------------------------------- snapshot properties

\* The configuration the handler at its save step is about to write.
ToSave(p) ==
    IF proc[p].req.op = "create" THEN CreateDomains(proc[p].domains, proc[p].config)
    ELSE IF proc[p].req.op = "update"
    THEN SetData(proc[p].domains, proc[p].req.realm, "ldap", proc[p].config)
    ELSE proc[p].domains

\* C33: while a handler is between its read and its save the file is the
\* complete configuration it read, and after the save of a delete the
\* complete one it wrote; the file changes only in the one step of a save,
\* from the one to the other; a read, which takes no lock, returns the file
\* of the state it runs in and leaves it alone, and its digest is the one of
\* that content.
C33_State ==
    /\ proc[Writer].pc \in {"check", "store", "save"} => file = proc[Writer].before.file
    /\ proc[Writer].pc = "cleanup" =>
           /\ file = WriteConfig(proc[Writer].domains)
           /\ file # proc[Writer].before.file
    /\ rd.ok => rd.digest = Some(to_hex(Sha256(rd.content)))

C33_Step ==
    /\ file' # file =>
           /\ proc[Writer].pc = "save"
           /\ lock = Writer
           /\ file' = WriteConfig(ToSave(Writer))
           /\ rd' = rd
    /\ (rd' # rd /\ rd'.ok) =>
           /\ rd'.content = file
           /\ file' = file
           /\ proc' = proc

C33_ReadSeesWholeFile == [](C33_State) /\ [][C33_Step]_vars

\* A delete has replaced the file and is at its cleanup; the latest read
\* returned the configuration from before the replacement, with the realm.
C33_Witness ==
    /\ proc[Writer].pc = "cleanup"
    /\ rd.ok
    /\ rd.op = "list"
    /\ rd.content = proc[Writer].before.file
    /\ rd.content # file
    /\ Len(rd.data) = Len(convert_to_typed_array(ParseConfig(file).sections,
                                                   ParseConfig(file).order, "ldap")) + 1

\* ---------------------------------------------------------------- frame properties

\* The record of a realm in a content.
RecordOf(content, realm) ==
    LET i == CHOOSE j \in 1..Len(content) : content[j].id = realm IN content[i]

DefaultNamed ==
    IsSome(rlast.req.default) \/ "Default" \in SeqRange(rlast.req.delete)

UpdateSaved == Returned /\ rlast.req.op = "update" /\ rlast.result = "ok"

\* C34: after a successful update the record of the realm differs from the
\* one before only in properties the payload supplies or the delete list
\* names (the default flag among them), and the records of the other realms
\* are the ones before, but for a default flag cleared when the update set
\* default = true.
C34_UpdateFrame ==
    UpdateSaved =>
        LET old == RecordOf(rlast.file_before, rlast.req.realm)
            new == RecordOf(rlast.file_after, rlast.req.realm)
        IN  /\ new.type = old.type
            /\ [new.data EXCEPT !.default = None] = [old.data EXCEPT !.default = None]
            /\ ~DefaultNamed => new.data.default = old.data.default
            /\ RealmIdsOf(rlast.file_after) = RealmIdsOf(rlast.file_before)
            /\ \A id \in RealmIdsOf(rlast.file_before) \ {rlast.req.realm} :
                   LET o == RecordOf(rlast.file_before, id)
                       n == RecordOf(rlast.file_after, id)
                   IN  \/ n = o
                       \/ /\ rlast.req.default = Some(TRUE)
                          /\ n = [o EXCEPT !.data.default = None]

\* C35: a create, update or delete that returns an error leaves the stored
\* bind passwords as they were when it read the configuration.
C35_FailedCallKeepsSecrets ==
    (Returned /\ rlast.result # "ok") => rlast.secrets_after = rlast.secrets_before

\* ---------------------------------------------------------------- realm type properties

\* The place and record of a realm in a content, or nothing.
PlaceOf(content, realm) == {<<i, content[i]>> : i \in {j \in 1..Len(content) : content[j].id = realm}}

\* The target is a stored realm of another type than ldap.
OtherType ==
    \E i \in 1..Len(del.content) :
        del.content[i].id = del.realm /\ del.content[i].type # "ldap"

\* C36: an update or delete through the LDAP handlers of an id that belongs
\* to a realm of another type fails and leaves the record at its place in
\* the file; after a successful delete the id is neither in the records nor
\* in the order list the file is rewritten from.
C36_OnlyLdapRecords ==
    del.done =>
        /\ OtherType =>
               /\ ~del.ok
               /\ PlaceOf(del.after, del.realm) = PlaceOf(del.content, del.realm)
        /\ (del.op = "delete" /\ del.ok) =>
               /\ del.realm \notin DOMAIN del.domains.sections
               /\ del.realm \notin SeqRange(del.domains.order)
               /\ del.realm \notin RealmIdsOf(del.after)

====
